---- MODULE Spec2Model ----
(***************************************************************************)
(* GameRunner (wsz6_play/engine/game_runner.py) driving the Rock-Paper-    *)
(* Scissors formulation (Textual_SZ6/Rock_Paper_Scissors_SZ6.py), with the *)
(* pause / resume path of the consumers around it.                         *)
(*                                                                         *)
(* The runner is an asyncio object: a coroutine runs without interruption  *)
(* from one await to the next.  Each action below is one such stretch of   *)
(* code; a call's position between awaits is its pc in `running`.          *)
(***************************************************************************)
EXTENDS Integers, Sequences, FiniteSets, TLC

\* ------------------------------------------------------------------ bounds
\* Requests are admitted while the runner's step counter is below MaxStep.
MaxStep == 8
\* Number of apply_operator / undo calls that may be in progress at once.
MaxCalls == 2
\* Runners built for one session: the first by start_game, the others by resume.
MaxRunners == 2
\* trigger_bots_for_session coroutines that may be alive at once.
MaxDrivers == 2
\* Player tokens a RoleManager issues.
MaxTokens == 3

\* ------------------------------------------- Rock_Paper_Scissors_SZ6.py
ROCK == 0
PAPER == 1
SCISSORS == 2
P1 == 0
P2 == 1
NUM_ROUNDS == 3

\* Python's None in a choices slot / as op_history[0] / as an absent attribute.
NoChoice == -1
NoOp == -1
NoJit == <<>>

\* RPS_State.__init__(old=None).  uid is the identity of the Python object.
RPS_State(uid) ==
    [uid              |-> uid,
     round_num        |-> 1,
     scores           |-> <<0, 0>>,
     phase            |-> "choosing",
     choices          |-> <<NoChoice, NoChoice>>,
     parallel         |-> TRUE,
     current_role_num |-> P1,
     jit_transition   |-> NoJit]

\* RPS_State.__init__(old=s): the copy constructor copies six attributes and
\* leaves jit_transition unset on the copy.
CopyState(s, uid) ==
    [uid              |-> uid,
     round_num        |-> s.round_num,
     scores           |-> s.scores,
     phase            |-> s.phase,
     choices          |-> s.choices,
     parallel         |-> s.parallel,
     current_role_num |-> s.current_role_num,
     jit_transition   |-> NoJit]

\* current_state before start(): None.
NoState == [RPS_State(0) EXCEPT !.phase = "None"]

\* A variant of the code: the difference taken the other way round.
Delta_swapped(c1, c2) == (c2 - c1) % 3

\* (c1 - c2) % 3 in _resolve_round: 1 -> P1 wins, 2 -> P2 wins, 0 -> tie.
Delta(c1, c2) == (c1 - c2) % 3

\* _resolve_round(state): scores, jit_transition, parallel, turn and phase.
\* Slot p of choices / scores is index p + 1 of the tuple.
_resolve_round(s) ==
    LET c1 == s.choices[P1 + 1]
        c2 == s.choices[P2 + 1]
        d  == Delta(c1, c2)
        sc == IF d = 1 THEN <<s.scores[1] + 1, s.scores[2] - 1>>
              ELSE IF d = 2 THEN <<s.scores[1] - 1, s.scores[2] + 1>>
              ELSE s.scores
    IN  [s EXCEPT !.scores = sc,
                  !.jit_transition = <<c1, c2, d>>,
                  !.parallel = FALSE,
                  !.current_role_num = P1,
                  !.phase = IF s.round_num = NUM_ROUNDS THEN "game_over"
                            ELSE "scoring"]

\* RPS_State.apply_choice(player, choice).
apply_choice(s, player, choice, uid) ==
    LET news == [CopyState(s, uid) EXCEPT !.choices[player + 1] = choice]
    IN  IF news.choices[P1 + 1] # NoChoice /\ news.choices[P2 + 1] # NoChoice
        THEN _resolve_round(news)
        ELSE [news EXCEPT !.current_role_num = IF player = P1 THEN P2 ELSE P1]

\* _start_next_round(s).
_start_next_round(s, uid) ==
    [CopyState(s, uid) EXCEPT !.round_num = s.round_num + 1,
                              !.phase = "choosing",
                              !.choices = <<NoChoice, NoChoice>>,
                              !.parallel = TRUE,
                              !.current_role_num = P1]

\* RPS_State.is_goal().
is_goal(s) == s.phase = "game_over"

\* RPS_State.__eq__: domain equality (round, scores, phase, choices).
StateEq(s, t) ==
    /\ s.round_num = t.round_num
    /\ s.scores = t.scores
    /\ s.phase = t.phase
    /\ s.choices = t.choices

\* RPS_Operator_Set: ops[0..2] P1 chooses c, ops[3..5] P2 chooses c,
\* ops[6] "Start next round".
NumOps == 7
OpIndices == 0 .. (NumOps - 1)
NextRoundOp == 6
OpPlayer(k) == IF k < 3 THEN P1 ELSE P2
OpChoice(k) == k % 3

\* op.role: P1 or P2 for the choice operators, None (-1) for "Start next round".
NoRole == -1
OpRole(k) == IF k = NextRoundOp THEN NoRole ELSE OpPlayer(k)

\* op.precond_func(state), for a state that is an RPS_State.
precond_func(k, s) ==
    IF k = NextRoundOp
    THEN s.phase = "scoring" /\ s.round_num < NUM_ROUNDS
    ELSE s.phase = "choosing" /\ s.choices[OpPlayer(k) + 1] = NoChoice

\* op.state_xition_func(state); uid is the identity of the object it returns.
state_xition_func(k, s, uid) ==
    IF k = NextRoundOp THEN _start_next_round(s, uid)
    ELSE apply_choice(s, OpPlayer(k), OpChoice(k), uid)

\* op.allow_undo is read with getattr(op, 'allow_undo', False): a formulation
\* may declare it on any operator.  The set of operators declaring it is an
\* input of the run (the shipped Rock-Paper-Scissors declares none).
AllowUndoInputs == { {}, {0} }

\* Operator indices the callers request: P1 Rock, P2 Scissors, "Start next
\* round", and an index outside the operator list.
OpRequests == {0, 5, 6, 7}

\* ------------------------------------------------ state_serializer.py
\* A variant of the code: only the attributes the copy constructor knows
\* are written.
_fallback_serialize_copied(s) ==
    [k \in {"round_num", "scores", "phase", "choices", "parallel",
            "current_role_num"} |-> s[k]]

StateAttrs ==
    {"round_num", "scores", "phase", "choices", "parallel", "current_role_num"}

\* _fallback_serialize(state): one entry per attribute in vars(state); the
\* values of an RPS_State are ints, bools, strs, None and lists of these, which
\* _coerce returns unchanged.  jit_transition is in vars(state) only once set.
_fallback_serialize(s) ==
    [k \in StateAttrs \cup (IF s.jit_transition = NoJit THEN {}
                            ELSE {"jit_transition"}) |-> s[k]]

\* serialize_state(state): RPS_State has no to_dict, so the fallback is used,
\* and the '__class__' key is added.
serialize_state(s) ==
    LET d == _fallback_serialize(s)
    IN  [k \in DOMAIN d \cup {"__class__"} |->
            IF k = "__class__" THEN "RPS_State" ELSE d[k]]

\* deserialize_state(data, state_class): RPS_State has no from_dict, so a new
\* object gets every key but '__class__' as an attribute.
deserialize_state(data, uid) ==
    LET cleaned == [k \in DOMAIN data \ {"__class__"} |-> data[k]]
    IN  [uid              |-> uid,
         round_num        |-> cleaned["round_num"],
         scores           |-> cleaned["scores"],
         phase            |-> cleaned["phase"],
         choices          |-> cleaned["choices"],
         parallel         |-> cleaned["parallel"],
         current_role_num |-> cleaned["current_role_num"],
         jit_transition   |-> IF "jit_transition" \in DOMAIN cleaned
                              THEN cleaned["jit_transition"] ELSE NoJit]

\* ----------------------------------------------------------- variables
VARIABLES
    state_stack,        \* GameRunner.state_stack
    op_history,         \* GameRunner.op_history
    current_state,      \* GameRunner.current_state (NoState = None)
    step,               \* GameRunner.step
    finished,           \* GameRunner.finished
    locked,             \* GameRunner._lock is held
    waiters,            \* the calls queued on GameRunner._lock, in order
    running,            \* the calls inside `async with self._lock`
    bcast,              \* payloads handed to broadcast_func, in order
    accepted,           \* the accepted requests of this runner, in order
    before_apply,       \* the runner as the last accepted apply_operator found it
    last,               \* the request that raised or returned in the last step
    allow_undo,         \* indices of the operators with allow_undo = True
    next_uid,           \* identity of the next state object created
    status,             \* session['status']
    latest_checkpoint,  \* the checkpoint named by session['latest_checkpoint_id']
    pending_checkpoint, \* data of a _handle_pause that is still being written
    runner_gen,         \* how many runners the session has had
    lobby_pc,           \* the owner's start_game handler
    players,            \* RoleManager._players: token -> PlayerInfo
    next_token,         \* the next token add_player issues
    bots,               \* session['bots']: the BotPlayers of the runner
    drivers,            \* the trigger_bots_for_session coroutines
    ops_seen,           \* the last two results of get_ops_info
    ttt,                \* a GameRunner driving Tic-Tac-Toe
    mc,                 \* a session of Missionaries and Cannibals played by a bot
    gma,                \* a session of Guess-My-Age, paused and resumed
    sys_modules,        \* sys.modules: the names under which game modules are registered
    modules,            \* the module objects made by load_formulation, with their globals
    formulations,       \* the formulations load_formulation has returned
    uuid_count,         \* how many names uuid.uuid4() has been asked for
    load_last           \* the last call of load_formulation or of a formulation

runner_vars == <<state_stack, op_history, current_state, step, finished>>
play_vars == <<players, next_token, bots, drivers>>
loader_vars == <<sys_modules, modules, formulations, uuid_count, load_last>>
side_vars == <<ops_seen, ttt, mc, gma, loader_vars>>
session_vars == <<allow_undo, status, latest_checkpoint, pending_checkpoint,
                  runner_gen, lobby_pc, play_vars, side_vars>>
vars == <<state_stack, op_history, current_state, step, finished, locked,
          waiters, running, bcast, accepted, before_apply, last, allow_undo,
          next_uid, status, latest_checkpoint, pending_checkpoint, runner_gen,
          lobby_pc, players, next_token, bots, drivers, ops_seen, ttt, mc,
          gma, sys_modules, modules, formulations, uuid_count, load_last>>

\* PlayerInfo(token, name, role_num, is_bot, user_id, strategy), without the
\* name and the user id; the token is the key in `players`.
Unassigned == -1
PlayerInfo(role_num, is_bot, strategy) ==
    [role_num |-> role_num, is_bot |-> is_bot, strategy |-> strategy]

\* A player who joined the lobby and was given no role.
Observer == 3 :> PlayerInfo(Unassigned, FALSE, "random")

\* A RoleManager holding a human player in each of the two roles.
TwoHumans ==
    (1 :> PlayerInfo(P1, FALSE, "random")) @@ (2 :> PlayerInfo(P2, FALSE, "random"))

\* A trigger_bots_for_session coroutine that is not running.  A running one
\* is awaited by the handler of connection `owner` (0: scheduled with
\* ensure_future by the lobby); role and op are those of the bot move it has
\* chosen.
Off == [pc |-> "off", owner |-> 0, role |-> NoRole, op |-> NoOp]

\* The runner's fields, as recorded in before_apply.
Snapshot ==
    [state_stack |-> state_stack, op_history |-> op_history,
     current_state |-> current_state, step |-> step]
NoSnapshot ==
    [state_stack |-> <<>>, op_history |-> <<>>, current_state |-> NoState,
     step |-> 0]

\* Who makes a request: the role it is made for (NoRole: the runner is
\* called directly) and, for a bot's move, the trigger_bots_for_session
\* coroutine that polled the bot (0: none).
NoCaller == [conn |-> 0, role |-> NoRole, driver |-> 0]

NoRequest ==
    [by |-> NoCaller, kind |-> "none", op_index |-> NoOp, outcome |-> "none"]

\* GameError messages raised by apply_operator and undo.
ApplyRejections == {"Game is already over.", "No operator with index.",
                    "That operator is not applicable in the current state."}
UndoRejections == {"Cannot undo after the game has ended.",
                   "Already at the initial state; cannot undo further.",
                   "Undo is not allowed after a move made during a parallel input phase."}
ExecutionFailure == "Operator execution failed."
GameErrors == ApplyRejections \cup UndoRejections \cup {ExecutionFailure}

\* ------------------------------------------------- variants of the code
\* Each definition below is one of the runner's definitions as a plausible
\* slip would have written it.  The properties further down must tell the
\* runner from each of them.

\* acquire() that never queues: no mutual exclusion between calls.
CanAcquire_nolock == TRUE

\* The lock taken with acquire() and released only on the normal path.
exit_lock_leak(outcome) == outcome # "ok"

\* apply_operator without the precondition test.
apply_check_noprecond(k) ==
    IF finished THEN "Game is already over."
    ELSE IF ~(0 <= k /\ k < NumOps) THEN "No operator with index."
    ELSE IF current_state = NoState THEN "AttributeError"
    ELSE "pass"

\* The parallel-phase guard with allow_undo ignored, either way.
undo_allow_never(last_op_index) == FALSE
undo_allow_always(last_op_index) == TRUE

\* The parallel-phase guard looking at the current state, state_stack[-1].
prev_state_top == state_stack[Len(state_stack)]

\* undo without the finished test.
undo_check_nofinished ==
    IF Len(state_stack) <= 1
    THEN "Already at the initial state; cannot undo further."
    ELSE IF state_stack[Len(state_stack) - 1].parallel
            /\ ~(op_history[Len(op_history)] \in allow_undo)
         THEN "Undo is not allowed after a move made during a parallel input phase."
    ELSE "pass"

\* undo that pops and leaves current_state as it was.
top_unchanged(stack) == current_state

\* undo that takes the step counter back.
undo_step_revert(st) == st - 1

\* apply_operator that pushes without counting the step.
next_step_none(st) == st
_filter_ops_all(ops, v) == ops
occupants_none(pl, token, r) == {}
assign_role_error_none(pl, token, r) == ""
seed_step_zero(saved) == 0

\* get_ops_info that offers no operator while a call holds the lock.
get_ops_info_idle(state) ==
    [k \in 0 .. 6 |->
        [index |-> k,
         role |-> IF k = 6 THEN -1 ELSE IF k < 3 THEN P1 ELSE P2,
         applicable |-> IF state.phase = "None" \/ locked THEN FALSE
                        ELSE precond_func(k, state)]]

\* The transition message built before the step is counted.
transition_msg_prev(st) == [type |-> "transition_msg", step |-> st - 1]

\* ------------------------------------------------------ game_runner.py
\* `async with self._lock`: asyncio.Lock.acquire() returns at once, without
\* yielding, when the lock is free and nobody is queued; otherwise the caller
\* is queued (first in, first out) and suspended.
CanAcquire == ~locked /\ waiters = <<>>

\* `async with self._lock`, leaving the block (by return or by exception):
\* the lock is released.  The value is that of _lock.locked() afterwards.
exit_lock(outcome) == FALSE

\* apply_operator, the checks made once the lock is held: the GameError
\* raised, or "pass".  Before start() current_state is None and the lambda
\* precond_func raises AttributeError, which is not caught.
apply_check(k) ==
    IF finished THEN "Game is already over."
    ELSE IF ~(0 <= k /\ k < NumOps) THEN "No operator with index."
    ELSE IF current_state = NoState THEN "AttributeError"
    ELSE IF ~precond_func(k, current_state)
         THEN "That operator is not applicable in the current state."
    ELSE "pass"

\* undo, the allow flag of the parallel-phase guard (lines 190-195).
undo_allow(last_op_index) ==
    IF last_op_index # NoOp /\ 0 <= last_op_index /\ last_op_index < NumOps
    THEN last_op_index \in allow_undo
    ELSE FALSE

\* undo, the state the parallel-phase guard looks at: state_stack[-2].
prev_state == state_stack[Len(state_stack) - 1]

\* undo, the checks made once the lock is held (lines 181-199).
undo_check ==
    IF finished THEN "Cannot undo after the game has ended."
    ELSE IF Len(state_stack) <= 1
         THEN "Already at the initial state; cannot undo further."
    ELSE IF prev_state.parallel /\ ~undo_allow(op_history[Len(op_history)])
         THEN "Undo is not allowed after a move made during a parallel input phase."
    ELSE "pass"

\* A list comprehension `[x for x in seq if x in keep]`.
RECURSIVE Filter(_, _)
Filter(seq, keep) ==
    IF seq = <<>> THEN <<>>
    ELSE (IF Head(seq) \in keep THEN <<Head(seq)>> ELSE <<>>)
             \o Filter(Tail(seq), keep)

\* get_ops_info(state): index, role and applicable of every operator; a
\* precondition that raises counts as not applicable (lines 211-228).
get_ops_info(state) ==
    [k \in OpIndices |->
        [index |-> k,
         role |-> OpRole(k),
         applicable |-> IF state = NoState THEN FALSE
                        ELSE precond_func(k, state)]]

\* The list get_ops_info returns, in index order.
ops_list(ops_info) == [j \in 1 .. NumOps |-> ops_info[j - 1]]

\* _build_base_payload(), as far as the properties read it: the state_update
\* payload for current_state cur at step st.
_build_base_payload(cur, st) ==
    [type |-> "state_update", step |-> st, state_uid |-> cur.uid,
     is_goal |-> is_goal(cur), is_parallel |-> cur.parallel,
     operators |-> ops_list(get_ops_info(cur)),
     current_role_num |-> cur.current_role_num]

\* The other payloads apply_operator hands to broadcast.  broadcast_func is
\* the caller's: it is taken to return normally, after suspending the call.
transition_msg(st) == [type |-> "transition_msg", step |-> st]

\* The goal_reached payload (lines 163-167).
goal_reached(st) == [type |-> "goal_reached", step |-> st]

\* A sequence without its i-th element.
Remove(seq, i) == SubSeq(seq, 1, i - 1) \o SubSeq(seq, i + 1, Len(seq))

\* A request raises before it has entered the lock's block for good: the
\* lock is released by the `async with`, the caller gets the exception.
Raise(by, kind, k, outcome) ==
    /\ locked' = exit_lock(outcome)
    /\ last' = [by |-> by, kind |-> kind, op_index |-> k, outcome |-> outcome]
    /\ UNCHANGED <<runner_vars, bcast, accepted, before_apply, next_uid>>

\* apply_operator from the lock to the first await (lines 107-132): the
\* checks, then the transition function is handed to a thread.  `state` is
\* the local variable read at line 116.
apply_operator_enter(by, k) ==
    IF apply_check(k) # "pass"
    THEN Raise(by, "apply", k, apply_check(k)) /\ UNCHANGED running
    ELSE /\ locked' = TRUE
         /\ running' = Append(running,
                [by |-> by, pc |-> "xition", kind |-> "apply", op_index |-> k,
                 state |-> current_state])
         /\ last' = NoRequest
         /\ UNCHANGED <<runner_vars, bcast, accepted, before_apply, next_uid>>

\* state_stack.append / op_history.append / step += 1 (lines 136-139).
push_state(stack, s) == Append(stack, s)
push_op(hist, k) == Append(hist, k)
next_step(st) == st + 1

\* state_stack.pop() / op_history.pop() (lines 201-202).
pop(seq) == SubSeq(seq, 1, Len(seq) - 1)

\* undo: current_state = state_stack[-1] after the pop (line 203).
top(stack) == stack[Len(stack)]

\* undo: step += 1 (line 204).
undo_step(st) == st + 1

\* The goal check and what follows it up to the next await (lines 150-169):
\* is_goal(new_state), finished, and the state_update built from the
\* runner's current_state cur and step st and handed to broadcast.
goal_check(i, new_state, log, cur, st) ==
    /\ finished' = (finished \/ is_goal(new_state))
    /\ bcast' = Append(log, _build_base_payload(cur, st))
    /\ running' = [running EXCEPT ![i].state = new_state,
                                  ![i].pc = IF is_goal(new_state)
                                            THEN "state_sent_goal"
                                            ELSE "state_sent"]

\* apply_operator when the thread returns (lines 133-148, and on to the goal
\* check when the new state carries no jit_transition).  The transition code
\* is the game's: it returns the new state, or raises (raised), which is
\* reported as a GameError.
xition_done(i, raised) ==
    /\ running[i].pc = "xition"
    /\ IF raised
       THEN /\ Raise(running[i].by, "apply", running[i].op_index,
                     ExecutionFailure)
            /\ running' = Remove(running, i)
       ELSE LET k == running[i].op_index
                new_state == state_xition_func(k, running[i].state, next_uid)
            IN  /\ next_uid' = next_uid + 1
                /\ state_stack' = push_state(state_stack, new_state)
                /\ op_history' = push_op(op_history, k)
                /\ current_state' = new_state
                /\ step' = next_step(step)
                /\ accepted' = Append(accepted,
                       [by |-> running[i].by, kind |-> "apply", op_index |-> k])
                /\ before_apply' = Snapshot
                /\ last' = NoRequest
                /\ IF new_state.jit_transition # NoJit
                   THEN /\ bcast' = Append(bcast, transition_msg(step'))
                        /\ running' = [running EXCEPT ![i].state = new_state,
                                                      ![i].pc = "jit_sent"]
                        /\ UNCHANGED finished
                   ELSE goal_check(i, new_state, bcast, new_state, step')
                /\ UNCHANGED locked
    /\ UNCHANGED waiters

\* apply_operator after the transition_msg broadcast returns (lines 150-169).
after_transition_msg(i) ==
    /\ running[i].pc = "jit_sent"
    /\ goal_check(i, running[i].state, bcast, current_state, step)
    /\ last' = NoRequest
    /\ UNCHANGED <<state_stack, op_history, current_state, step, locked,
                   waiters, accepted, before_apply, next_uid>>

\* apply_operator after the state_update of a goal state: goal_reached is
\* handed to broadcast (lines 163-167).
after_goal_state_update(i) ==
    /\ running[i].pc = "state_sent_goal"
    /\ bcast' = Append(bcast, goal_reached(step))
    /\ running' = [running EXCEPT ![i].pc = "goal_sent"]
    /\ last' = NoRequest
    /\ UNCHANGED <<runner_vars, locked, waiters, accepted, before_apply,
                   next_uid>>

\* undo from the lock to its only await (lines 180-205).
undo_enter(by) ==
    IF undo_check # "pass"
    THEN Raise(by, "undo", NoOp, undo_check) /\ UNCHANGED running
    ELSE /\ state_stack' = pop(state_stack)
         /\ op_history' = pop(op_history)
         /\ current_state' = top(state_stack')
         /\ step' = undo_step(step)
         /\ bcast' = Append(bcast, _build_base_payload(current_state', step'))
         /\ accepted' = Append(accepted,
                [by |-> by, kind |-> "undo", op_index |-> NoOp])
         /\ locked' = TRUE
         /\ running' = Append(running,
                [by |-> by, pc |-> "undo_sent", kind |-> "undo",
                 op_index |-> NoOp, state |-> NoState])
         /\ last' = NoRequest
         /\ UNCHANGED <<finished, before_apply, next_uid>>

\* The end of the `async with self._lock` block: the last broadcast has
\* returned, the lock is released and the call returns.
call_return(i) ==
    /\ running[i].pc \in {"state_sent", "goal_sent", "undo_sent"}
    /\ locked' = exit_lock("ok")
    /\ last' = [by |-> running[i].by, kind |-> running[i].kind,
                op_index |-> running[i].op_index, outcome |-> "ok"]
    /\ running' = Remove(running, i)
    /\ UNCHANGED <<runner_vars, waiters, bcast, accepted, before_apply,
                   next_uid>>

\* ------------------------------------- callers of the runner, the lock
\* The step counter is capped: new requests are made while it is below
\* MaxStep, or once the game is over (they no longer advance it); at most
\* MaxCalls calls are in progress.
Admit ==
    /\ step < MaxStep \/ finished
    /\ Len(running) + Len(waiters) < MaxCalls

\* `async with self._lock` when the lock is taken: the caller is queued.
enqueue(by, kind, k) ==
    /\ waiters' = Append(waiters, [by |-> by, kind |-> kind, op_index |-> k])
    /\ last' = NoRequest
    /\ UNCHANGED <<runner_vars, locked, running, bcast, accepted,
                   before_apply, next_uid>>

\* `await runner.apply_operator(k)` by caller `by`, up to its first await.
apply_call(by, k) ==
    IF CanAcquire
    THEN apply_operator_enter(by, k) /\ UNCHANGED waiters
    ELSE enqueue(by, "apply", k)

\* `await runner.undo()` by caller `by`, up to its first await.
undo_call(by) ==
    IF CanAcquire
    THEN undo_enter(by) /\ UNCHANGED waiters
    ELSE enqueue(by, "undo", NoOp)

\* The lock was released and the first queued caller gets it.
wake ==
    /\ waiters # <<>>
    /\ ~locked
    /\ waiters' = Tail(waiters)
    /\ IF Head(waiters).kind = "apply"
       THEN apply_operator_enter(Head(waiters).by, Head(waiters).op_index)
       ELSE undo_enter(Head(waiters).by)

\* A coroutine calls runner.apply_operator(k).
ApplyCall(k) == Admit /\ apply_call(NoCaller, k) /\ UNCHANGED session_vars

\* A coroutine calls runner.undo().
UndoCall == Admit /\ undo_call(NoCaller) /\ UNCHANGED session_vars

Wake == wake /\ UNCHANGED session_vars

\* The transition function's thread ends.
XitionDone(i) ==
    /\ \E raised \in BOOLEAN : xition_done(i, raised)
    /\ UNCHANGED session_vars

AfterTransitionMsg(i) == after_transition_msg(i) /\ UNCHANGED session_vars

AfterGoalStateUpdate(i) == after_goal_state_update(i) /\ UNCHANGED session_vars

CallReturn(i) == call_return(i) /\ UNCHANGED session_vars

\* ---------------------------------------------------------- role_manager.py
\* RPS_Roles_Spec: the roles P1 and P2, neither an observer, and
\* min_players_to_start (Rock_Paper_Scissors_SZ6.py, lines 254-263).
Roles == {P1, P2}
min_players_to_start == 2
is_observer_role(r) == FALSE

\* The tokens of a player map in the order the dict lists them: the order in
\* which add_player issued them.
RECURSIVE tokens_upto(_, _)
tokens_upto(pl, n) ==
    IF n = 0 THEN <<>>
    ELSE tokens_upto(pl, n - 1) \o (IF n \in DOMAIN pl THEN <<n>> ELSE <<>>)
tokens(pl) == tokens_upto(pl, MaxTokens)

\* A function without the keys in `gone`.
Without(pl, gone) == [t \in DOMAIN pl \ gone |-> pl[t]]

\* add_player: a new token, registered as an unassigned human.
add_player(pl, token) == pl @@ (token :> PlayerInfo(Unassigned, FALSE, "random"))

\* remove_player: _players.pop(token, None).
remove_player(pl, token) == Without(pl, {token})

\* assign_role, the error it returns ("" for none).
assign_role_error(pl, token, r) ==
    IF token \notin DOMAIN pl THEN "Unknown player token."
    ELSE IF ~(0 <= r /\ r < Cardinality(Roles))
         THEN "Role number is out of range."
    ELSE ""

\* assign_role, the eviction loop: the other occupants of role r.
occupants(pl, token, r) ==
    { t \in DOMAIN pl : pl[t].role_num = r /\ t # token }

\* assign_role, the player map it leaves.
assign_role(pl, token, r) ==
    IF assign_role_error(pl, token, r) # "" THEN pl
    ELSE LET evicted == occupants(pl, token, r)
             kept == Without(pl, { t \in evicted : pl[t].is_bot })
         IN  [t \in DOMAIN kept |->
                IF t = token THEN [kept[t] EXCEPT !.role_num = r]
                ELSE IF t \in evicted
                     THEN [kept[t] EXCEPT !.role_num = Unassigned]
                ELSE kept[t]]

\* get_assigned_players, as the list of their tokens.
get_assigned_players(pl) ==
    Filter(tokens(pl), { t \in DOMAIN pl : pl[t].role_num >= 0 })

count_non_observer_filled(pl) ==
    Cardinality({ pl[t].role_num : t \in
        { u \in DOMAIN pl : pl[u].role_num >= 0
                               /\ ~is_observer_role(pl[u].role_num) } })

\* validate_for_start: TRUE when it returns no error.
validate_for_start(pl) == count_non_observer_filled(pl) >= min_players_to_start

\* _make_runner_and_bots, the bots: a BotPlayer for every assigned bot.
BotPlayer(r, strategy) == [role_num |-> r, strategy |-> strategy]
make_bots(pl) ==
    LET ts == Filter(get_assigned_players(pl),
                     { t \in DOMAIN pl : pl[t].is_bot })
    IN  [j \in 1 .. Len(ts) |-> BotPlayer(pl[ts[j]].role_num, pl[ts[j]].strategy)]

\* ------------------------------------------ game_consumer.py, bot_player.py
\* A game connection is named by the token it connected with; connect() reads
\* its role_num from the RoleManager (line 86).  A consumer handles one
\* message at a time.
Conns == { t \in DOMAIN players : ~players[t].is_bot }
role_num(t) == players[t].role_num
Human(t) == [conn |-> t, role |-> role_num(t), driver |-> 0]
Bot(d, r) == [conn |-> 0, role |-> r, driver |-> d]

InFlight == { running[i].by : i \in 1 .. Len(running) }
                \cup { waiters[i].by : i \in 1 .. Len(waiters) }
Alive == { d \in 1 .. MaxDrivers : drivers[d].pc # "off" }
Busy(t) ==
    \/ \E by \in InFlight : by.conn = t
    \/ \E d \in Alive : drivers[d].owner = t

\* A message is taken from a connection that is not handling one; a driver
\* slot is kept for the trigger_bots_for_session its handler may await.
AdmitMessage(t) ==
    /\ Admit
    /\ ~Busy(t)
    /\ Cardinality(Alive)
         + Cardinality({ by \in InFlight : by.driver = 0 }) < MaxDrivers

\* _handle_apply, the role-turn check (lines 162-166).
TurnRejection == "It is not your turn."
turn_role(state) == IF state = NoState THEN 0 ELSE state.current_role_num
turn_check(state, role) == turn_role(state) = role

\* _filter_ops_for_role(ops, role_num): the operators shown to a viewer
\* (lines 457-464).
_filter_ops_for_role(ops, v) ==
    Filter(ops, { op \in { ops[j] : j \in 1 .. Len(ops) } :
                     op.role \in {NoRole, v} })

\* GameConsumer.state_update: what a connection of role v sends on when the
\* group relays the runner's state_update `event` (lines 357-359).
state_update(event, v) ==
    [type |-> "state_update", step |-> event.step,
     state_uid |-> event.state_uid, is_goal |-> event.is_goal,
     is_parallel |-> event.is_parallel,
     operators |-> _filter_ops_for_role(event.operators, v),
     current_role_num |-> event.current_role_num,
     your_role_num |-> v]

\* GameConsumer.connect: the state_update sent directly to a connection of
\* role v (lines 97-116).
connect_payload(v) ==
    [type |-> "state_update", step |-> step,
     state_uid |-> current_state.uid,
     is_goal |-> IF current_state = NoState THEN FALSE
                 ELSE is_goal(current_state),
     operators |-> _filter_ops_for_role(ops_list(get_ops_info(current_state)), v),
     current_role_num |-> turn_role(current_state),
     your_role_num |-> v]

\* GameConsumer.connect for the token t (lines 67-116): the session is in
\* progress and the RoleManager knows the token.
Connect(t) ==
    /\ status = "in_progress"
    /\ t \in DOMAIN players
    /\ last' = [by |-> Human(t), kind |-> "connect", op_index |-> NoOp,
                outcome |-> "ok"]
    /\ UNCHANGED <<runner_vars, locked, waiters, running, bcast, accepted,
                   before_apply, next_uid, session_vars>>

\* BotPlayer.maybe_move, lines 60-64: the operators the bot may choose.
applicable_ops(ops, bot_role) ==
    Filter(ops, { op \in { ops[j] : j \in 1 .. Len(ops) } :
                     op.applicable /\ op.role \in {NoRole, bot_role} })

\* BotPlayer.maybe_move, lines 72-76: random.choice(applicable) for strategy
\* 'random', applicable[0] otherwise.
chosen(applicable, strategy) ==
    IF strategy = "random"
    THEN { applicable[j].index : j \in 1 .. Len(applicable) }
    ELSE { applicable[1].index }

\* The first bot of `bots` whose maybe_move gets past its two early returns
\* (lines 55-58), 0 if there is none.
moving_bot(current_role) ==
    LET js == { j \in 1 .. Len(bots) :
                   bots[j].role_num = current_role /\ ~finished }
    IN  IF js = {} THEN 0 ELSE CHOOSE j \in js : \A i \in js : j <= i

\* The lowest free slot for a trigger_bots_for_session coroutine.
free_driver == CHOOSE d \in 1 .. MaxDrivers :
                   /\ drivers[d].pc = "off"
                   /\ \A e \in 1 .. d - 1 : drivers[e].pc # "off"

\* What the caller of apply_operator / undo does when its call has returned
\* or raised (last').
\*   a bot's call: maybe_move returns the index and the loop of
\*     trigger_bots_for_session goes on (lines 431-448), or the exception
\*     leaves maybe_move and trigger_bots_for_session, which catch nothing;
\*   a connection's call: on GameError the error is sent (lines 178-180,
\*     205-207); after an apply that finished the game _on_game_ended marks
\*     the session ended (lines 192-193, 404); otherwise
\*     trigger_bots_for_session is awaited, which returns at once when the
\*     session has no bots (lines 417-418).
after_call ==
    LET r == last'
    IN  IF r = NoRequest \/ r.by = NoCaller
        THEN UNCHANGED <<status, drivers>>
        ELSE IF r.by.driver # 0
        THEN /\ drivers' = [drivers EXCEPT ![r.by.driver] =
                               IF r.outcome = "ok"
                               THEN [@ EXCEPT !.pc = "poll", !.role = NoRole,
                                              !.op = NoOp]
                               ELSE Off]
             /\ UNCHANGED status
        ELSE IF r.outcome # "ok"
        THEN UNCHANGED <<status, drivers>>
        ELSE IF r.kind = "apply" /\ finished'
        THEN status' = "ended" /\ UNCHANGED drivers
        ELSE IF bots = <<>>
        THEN UNCHANGED <<status, drivers>>
        ELSE /\ drivers' = [drivers EXCEPT ![free_driver] =
                               [Off EXCEPT !.pc = "poll", !.owner = r.by.conn]]
             /\ UNCHANGED status

play_frame == UNCHANGED <<allow_undo, latest_checkpoint, pending_checkpoint,
                          runner_gen, lobby_pc, players, next_token, bots,
                          side_vars>>

\* _handle_apply for the message {type: apply_operator, op_index: k} on
\* connection t (lines 156-196).
HandleApply(t, k) ==
    /\ AdmitMessage(t)
    /\ IF ~turn_check(current_state, role_num(t))
       THEN /\ last' = [by |-> Human(t), kind |-> "apply", op_index |-> k,
                        outcome |-> TurnRejection]
            /\ UNCHANGED <<runner_vars, locked, waiters, running, bcast,
                           accepted, before_apply, next_uid, status, drivers>>
       ELSE apply_call(Human(t), k) /\ after_call
    /\ play_frame

\* _handle_undo for the message {type: request_undo} on connection t
\* (lines 198-212).
HandleUndo(t) ==
    /\ AdmitMessage(t)
    /\ undo_call(Human(t))
    /\ after_call
    /\ play_frame

\* trigger_bots_for_session, one pass of its loop up to the await in
\* maybe_move (lines 422-430, bot_player.py 55-78): the game is over and the
\* session is marked ended, or no bot moves and the loop is left, or a bot
\* has chosen its operator and sleeps.
Poll(d) ==
    /\ drivers[d].pc = "poll"
    /\ IF finished
       THEN /\ status' = "ended"
            /\ drivers' = [drivers EXCEPT ![d] = Off]
       ELSE LET j == moving_bot(turn_role(current_state))
                applicable ==
                    IF j = 0 THEN <<>>
                    ELSE applicable_ops(ops_list(get_ops_info(current_state)),
                                        bots[j].role_num)
            IN  /\ UNCHANGED status
                /\ IF applicable = <<>>
                   THEN drivers' = [drivers EXCEPT ![d] = Off]
                   ELSE \E k \in chosen(applicable, bots[j].strategy) :
                           drivers' = [drivers EXCEPT ![d] =
                               [@ EXCEPT !.pc = "think",
                                         !.role = bots[j].role_num,
                                         !.op = k]]
    /\ last' = NoRequest
    /\ UNCHANGED <<runner_vars, locked, waiters, running, bcast, accepted,
                   before_apply, next_uid>>
    /\ play_frame

\* maybe_move after asyncio.sleep(self.delay): runner.apply_operator with the
\* operator chosen before the sleep (bot_player.py 78-79).
Act(d) ==
    /\ drivers[d].pc = "think"
    /\ Admit
    /\ LET mid == [drivers EXCEPT ![d].pc = "call"]
           r == last'
       IN  /\ apply_call(Bot(d, drivers[d].role), drivers[d].op)
           /\ drivers' = IF r = NoRequest THEN mid
                         ELSE [mid EXCEPT ![d] = Off]
    /\ UNCHANGED status
    /\ play_frame

PlayWake == wake /\ after_call /\ play_frame

PlayXitionDone(i) ==
    /\ \E raised \in BOOLEAN : xition_done(i, raised)
    /\ after_call
    /\ play_frame

PlayAfterTransitionMsg(i) ==
    after_transition_msg(i) /\ UNCHANGED session_vars

PlayAfterGoalStateUpdate(i) ==
    after_goal_state_update(i) /\ UNCHANGED session_vars

PlayCallReturn(i) == call_return(i) /\ after_call /\ play_frame

\* ------------------------------------ lobby_consumer.py, game_consumer.py
\* GameRunner.start(), awaited by _handle_start_game after the runner has
\* been stored in the session: initialize_problem() in a thread, then the
\* fields and the first state_update (lines 88-93).  op_history is left as
\* the constructor set it.
start ==
    /\ LET initial_state == RPS_State(next_uid)
       IN  /\ state_stack' = <<initial_state>>
           /\ current_state' = initial_state
           /\ step' = 0
           /\ finished' = FALSE
           /\ bcast' = Append(bcast, _build_base_payload(initial_state, 0))
    /\ next_uid' = next_uid + 1
    /\ UNCHANGED op_history

\* trigger_bots_for_session is scheduled with ensure_future when the state
\* just broadcast gives the turn to a bot (lobby_consumer.py lines 393-397,
\* 457-461).
schedule_bots ==
    drivers' =
        IF \E j \in 1 .. Len(bots') :
               bots'[j].role_num = turn_role(current_state')
        THEN [drivers EXCEPT ![free_driver] = [Off EXCEPT !.pc = "poll"]]
        ELSE drivers

\* _handle_start_game from `await runner.start()` on (lines 375-397).
Start ==
    /\ lobby_pc = "starting"
    /\ start
    /\ lobby_pc' = "idle"
    /\ last' = NoRequest
    /\ UNCHANGED bots
    /\ schedule_bots
    /\ UNCHANGED <<locked, waiters, running, accepted, before_apply,
                   allow_undo, status, latest_checkpoint, pending_checkpoint,
                   runner_gen, players, next_token, side_vars>>

\* GameConsumer._handle_pause up to the first await of save_checkpoint: the
\* checkpoint data are taken from the runner (checkpoint.py lines 53-61).
PauseSave ==
    /\ current_state # NoState
    /\ ~finished
    /\ pending_checkpoint = <<>>
    /\ runner_gen < MaxRunners
    /\ pending_checkpoint' =
           <<[state |-> serialize_state(current_state), step |-> step]>>
    /\ last' = NoRequest
    /\ UNCHANGED <<runner_vars, locked, waiters, running, bcast, accepted,
                   before_apply, allow_undo, next_uid, status,
                   latest_checkpoint, runner_gen, lobby_pc, play_vars,
                   side_vars>>

\* _handle_pause after save_checkpoint returned: the session is marked
\* paused and names the checkpoint (game_consumer.py lines 230-233).
PauseCommit ==
    /\ pending_checkpoint # <<>>
    /\ status' = "paused"
    /\ latest_checkpoint' = pending_checkpoint
    /\ pending_checkpoint' = <<>>
    /\ last' = NoRequest
    /\ UNCHANGED <<runner_vars, locked, waiters, running, bcast, accepted,
                   before_apply, allow_undo, next_uid, runner_gen, lobby_pc,
                   play_vars, side_vars>>

\* _resume_from_checkpoint: runner.step = step, the step load_checkpoint
\* returned (line 431).
seed_step(saved) == saved

\* LobbyConsumer._resume_from_checkpoint up to the session update (lines
\* 401-439): a new runner is built and seeded with the restored state.  The
\* model follows the session's runner: calls still running on the runner it
\* replaces, and the trigger_bots_for_session coroutines that hold it, go on
\* outside it, and the queue, the log of payloads and the accepted requests
\* are those of the new runner.
ResumeSeed ==
    /\ lobby_pc = "idle"
    /\ status = "paused"
    /\ latest_checkpoint # <<>>
    /\ runner_gen < MaxRunners
    /\ LET state == deserialize_state(latest_checkpoint[1].state, next_uid)
       IN  /\ state_stack' = <<state>>
           /\ current_state' = state
    /\ op_history' = <<NoOp>>
    /\ step' = seed_step(latest_checkpoint[1].step)
    /\ finished' = FALSE
    /\ locked' = FALSE
    /\ waiters' = <<>>
    /\ running' = <<>>
    /\ bcast' = <<>>
    /\ accepted' = <<>>
    /\ before_apply' = NoSnapshot
    /\ last' = NoRequest
    /\ next_uid' = next_uid + 1
    /\ status' = "in_progress"
    /\ runner_gen' = runner_gen + 1
    /\ lobby_pc' = "resume_bcast"
    /\ bots' = make_bots(players)
    /\ drivers' = [d \in 1 .. MaxDrivers |-> Off]
    /\ UNCHANGED <<allow_undo, latest_checkpoint, pending_checkpoint,
                   players, next_token, side_vars>>

\* _resume_from_checkpoint, the runner._broadcast_state() after the awaits
\* that follow the session update (line 454).
ResumeBroadcast ==
    /\ lobby_pc = "resume_bcast"
    /\ bcast' = Append(bcast, _build_base_payload(current_state, step))
    /\ lobby_pc' = "idle"
    /\ last' = NoRequest
    /\ UNCHANGED <<runner_vars, locked, waiters, running, accepted,
                   before_apply, allow_undo, next_uid, status,
                   latest_checkpoint, pending_checkpoint, runner_gen,
                   players, next_token, bots, side_vars>>
    /\ schedule_bots

\* _run_game_ended, called by the handler whose apply_operator finished the
\* game (game_consumer.py lines 193-194, 381-405): after its awaits the
\* session is marked ended.
RunGameEnded ==
    /\ finished
    /\ running = <<>>
    /\ status # "ended"
    /\ status' = "ended"
    /\ last' = NoRequest
    /\ UNCHANGED <<runner_vars, locked, waiters, running, bcast, accepted,
                   before_apply, allow_undo, next_uid, latest_checkpoint,
                   pending_checkpoint, runner_gen, lobby_pc, play_vars,
                   side_vars>>

\* ------------------------------------------------------- lobby_consumer.py
\* What the lobby handlers are sent: tokens (one of them unknown to the
\* RoleManager), role numbers (two of them out of range), strategies.
TokenInputs == 1 .. MaxTokens + 1
RoleInputs == {-1, P1, P2, 2}
Strategies == {"random", "first"}

\* A lobby request as recorded in `last`: the handler, its arguments, the
\* players assign_role found in the role, and the error sent ("ok" for none).
LobbyRequest(kind, token, r, evicted, outcome) ==
    [by |-> NoCaller, kind |-> kind, op_index |-> NoOp, outcome |-> outcome,
     token |-> token, role_num |-> r, evicted |-> evicted]

\* The handlers below leave the runner, the session's status and the bots
\* built at start alone.
lobby_frame ==
    UNCHANGED <<runner_vars, locked, waiters, running, bcast, accepted,
                before_apply, next_uid, allow_undo, status, latest_checkpoint,
                pending_checkpoint, runner_gen, lobby_pc, bots, drivers,
                side_vars>>

\* The owner's connection is not inside its start_game handler.
OwnerIdle == lobby_pc = "idle"

\* LobbyConsumer.connect of a guest or of a user the RoleManager does not
\* know yet (lines 114-137): the lobby is open or paused, a player is added.
LobbyConnect ==
    /\ status \in {"lobby", "paused"}
    /\ next_token <= MaxTokens
    /\ players' = add_player(players, next_token)
    /\ next_token' = next_token + 1
    /\ last' = LobbyRequest("connect", next_token, Unassigned, {}, "ok")
    /\ lobby_frame

\* LobbyConsumer.disconnect of the connection that holds token t (lines
\* 154-169): an unassigned player is removed while the lobby is open.
LobbyDisconnect(t) ==
    /\ t \in DOMAIN players
    /\ ~players[t].is_bot
    /\ status = "lobby"
    /\ players[t].role_num < 0
    /\ players' = remove_player(players, t)
    /\ last' = LobbyRequest("disconnect", t, Unassigned, {}, "ok")
    /\ UNCHANGED next_token
    /\ lobby_frame

ok_or(err) == IF err = "" THEN "ok" ELSE err

\* _handle_assign_role, sent by the owner (lines 205-226).
HandleAssignRole(t, r) ==
    /\ OwnerIdle
    /\ players' = assign_role(players, t, r)
    /\ last' = LobbyRequest("assign_role", t, r,
                   IF assign_role_error(players, t, r) = ""
                   THEN occupants(players, t, r) ELSE {},
                   ok_or(assign_role_error(players, t, r)))
    /\ UNCHANGED next_token
    /\ lobby_frame

\* get_token_for_role: the first player listed with that role_num, 0 for
\* None (role_manager.py lines 108-113).
get_token_for_role(pl, r) ==
    LET ts == Filter(tokens(pl), { t \in DOMAIN pl : pl[t].role_num = r })
    IN  IF ts = <<>> THEN 0 ELSE ts[1]

\* _handle_unassign_role, sent by the owner (lines 228-255): a bot found in
\* the role is removed, a human is set to unassigned.
HandleUnassignRole(r) ==
    /\ OwnerIdle
    /\ LET token == get_token_for_role(players, r)
       IN  /\ players' =
                 IF token = 0 THEN players
                 ELSE IF players[token].is_bot
                      THEN remove_player(players, token)
                 ELSE [players EXCEPT ![token].role_num = Unassigned]
           /\ last' = LobbyRequest("unassign_role", token, r, {}, "ok")
    /\ UNCHANGED next_token
    /\ lobby_frame

\* _handle_assign_bot, sent by the owner (lines 257-300): a player is added,
\* marked as a bot and assigned to the role.
HandleAssignBot(r, strategy) ==
    /\ OwnerIdle
    /\ next_token <= MaxTokens
    /\ IF ~(0 <= r /\ r < Cardinality(Roles))
       THEN /\ last' = LobbyRequest("assign_bot", 0, r, {},
                                    "Role number is out of range.")
            /\ UNCHANGED <<players, next_token>>
       ELSE LET bot_token == next_token
                added == [add_player(players, bot_token) EXCEPT
                             ![bot_token].is_bot = TRUE,
                             ![bot_token].strategy = strategy]
            IN  /\ players' = assign_role(added, bot_token, r)
                /\ next_token' = next_token + 1
                /\ last' = LobbyRequest("assign_bot", bot_token, r,
                               occupants(added, bot_token, r), "ok")
    /\ lobby_frame

\* _handle_start_game, the fresh start up to its first await (lines
\* 314-325): validate_for_start, then the formulation is loaded in a thread.
start_game_fresh ==
    /\ IF validate_for_start(players)
       THEN /\ lobby_pc' = "loading"
            /\ last' = LobbyRequest("start_game", 0, NoRole, {}, "ok")
       ELSE /\ lobby_pc' = lobby_pc
            /\ last' = LobbyRequest("start_game", 0, NoRole, {},
                                    "Need at least min non-observer role(s) filled.")
    /\ UNCHANGED <<runner_vars, locked, waiters, running, bcast, accepted,
                   before_apply, next_uid, allow_undo, status,
                   latest_checkpoint, pending_checkpoint, runner_gen,
                   play_vars, side_vars>>

\* start_game sent by the owner while the lobby is open.
StartValidate ==
    /\ OwnerIdle
    /\ status = "lobby"
    /\ start_game_fresh

\* start_game sent by the owner over a lobby connection that is still open
\* while the game is in progress: the handler reads session['status'] for
\* the resume path only (line 310), so the fresh start goes ahead.
StartValidateRunning ==
    /\ OwnerIdle
    /\ status = "in_progress"
    /\ runner_gen < MaxRunners
    /\ start_game_fresh

\* _handle_start_game after the awaits (lines 345-358): the runner and the
\* bots are built from the RoleManager and stored, the session is in
\* progress.  The model follows the session's runner: the lock, the queue
\* and the logs are those of the new runner, and a runner that replaces one
\* in progress is counted.
StartCommit ==
    /\ lobby_pc = "loading"
    /\ state_stack' = <<>>
    /\ op_history' = <<NoOp>>
    /\ current_state' = NoState
    /\ step' = 0
    /\ finished' = FALSE
    /\ bots' = make_bots(players)
    /\ status' = "in_progress"
    /\ latest_checkpoint' = <<>>
    /\ lobby_pc' = "starting"
    /\ last' = NoRequest
    /\ locked' = FALSE
    /\ waiters' = <<>>
    /\ running' = <<>>
    /\ bcast' = <<>>
    /\ accepted' = <<>>
    /\ before_apply' = NoSnapshot
    /\ runner_gen' = IF status = "in_progress" THEN runner_gen + 1
                     ELSE runner_gen
    /\ UNCHANGED <<next_uid, allow_undo, pending_checkpoint, players,
                   next_token, drivers, side_vars>>

\* ------------------------------------------------- get_ops_info, called
\* A caller (a consumer building a payload, a bot choosing its move) calls
\* runner.get_ops_info(runner.current_state); the call is synchronous.
\* ops_seen keeps the result with the state it was made for and the number
\* of requests accepted before it, and the result of the call before.
OpsResult ==
    [state_uid |-> current_state.uid, at |-> Len(accepted),
     ops |-> ops_list(get_ops_info(current_state))]

GetOpsInfo ==
    /\ ops_seen' = (IF ops_seen = <<>> THEN <<>>
                    ELSE <<ops_seen[Len(ops_seen)]>>) \o <<OpsResult>>
    /\ last' = NoRequest
    /\ UNCHANGED <<runner_vars, locked, waiters, running, bcast, accepted,
                   before_apply, next_uid, allow_undo, status,
                   latest_checkpoint, pending_checkpoint, runner_gen,
                   lobby_pc, play_vars, ttt, mc, gma,
                   loader_vars>>

\* Everything that belongs to the Rock-Paper-Scissors session.
core_vars ==
    <<runner_vars, locked, waiters, running, bcast, accepted, before_apply,
      next_uid, allow_undo, status, latest_checkpoint, pending_checkpoint,
      runner_gen, lobby_pc, play_vars, last>>

\* ------------------------------------------------ Tic_Tac_Toe_SZ6.py
X == 0
O == 1
EMPTY == 2

\* TTT_State.win is a text, "Win for X in row 1"; the model keeps what the
\* text is made of, <<role, kind of line, number>>, and <<>> for "".
NoWin == <<>>

\* TTT_State() : the empty board, X to move.
TTT_State ==
    [whose_turn |-> X, current_role_num |-> X,
     board |-> [i \in 0 .. 2 |-> [j \in 0 .. 2 |-> EMPTY]],
     win |-> NoWin, winner |-> -1, jit_transition |-> <<>>]

any_horiz_win(s, role) ==
    LET rows == {i \in 0 .. 2 : \A j \in 0 .. 2 : s.board[i][j] = role}
    IN  IF rows = {} THEN <<>>
        ELSE LET i == CHOOSE r \in rows : \A q \in rows : r <= q
             IN  <<<<role, "row", i + 1>>, role>>

any_vert_win(s, role) ==
    LET cols == {j \in 0 .. 2 : \A i \in 0 .. 2 : s.board[i][j] = role}
    IN  IF cols = {} THEN <<>>
        ELSE LET j == CHOOSE c \in cols : \A q \in cols : c <= q
             IN  <<<<role, "column", j + 1>>, role>>

any_diag_win(s, role) ==
    IF \A i \in 0 .. 2 : s.board[i][i] = role
    THEN <<<<role, "main diagonal", 0>>, role>>
    ELSE IF \A i \in 0 .. 2 : s.board[2 - i][i] = role
         THEN <<<<role, "alternate diagonal", 0>>, role>>
         ELSE <<>>

role_win(s, role) ==
    IF any_horiz_win(s, role) # <<>> THEN any_horiz_win(s, role)
    ELSE IF any_vert_win(s, role) # <<>> THEN any_vert_win(s, role)
    ELSE any_diag_win(s, role)

\* The result of find_any_win: <<win, winner>>, or <<>> for False.
find_any_win(s) ==
    IF role_win(s, X) # <<>> THEN role_win(s, X) ELSE role_win(s, O)

\* The object after check_for_win has run on it: win and winner are
\* assigned on the object itself when a win is found.
check_for_win(s) ==
    IF find_any_win(s) # <<>>
    THEN [s EXCEPT !.win = find_any_win(s)[1], !.winner = find_any_win(s)[2]]
    ELSE s

moves_left(s) == \E i \in 0 .. 2 : \E j \in 0 .. 2 : s.board[i][j] = EMPTY

\* What TTT_State.is_goal returns.
ttt_is_goal(s) == find_any_win(s) # <<>> \/ ~moves_left(s)

can_put(s, role, row, col) ==
    s.whose_turn = role /\ s.board[row][col] = EMPTY

\* put: a copy of the state with the mark placed, the transition text
\* attached and the turn passed on; win and winner are copied as they are.
put(s, row, col) ==
    [s EXCEPT !.board[row][col] = s.whose_turn,
              !.jit_transition = <<s.whose_turn, row + 1, col + 1>>,
              !.whose_turn = 1 - s.whose_turn,
              !.current_role_num = 1 - s.whose_turn]

\* Operators 0-8 place an X, 9-17 an O, at row k \div 3 and column k % 3.
TTTNumOps == 18
ttt_precond(k, s) ==
    can_put(s, IF k < 9 THEN X ELSE O, (k % 9) \div 3, (k % 9) % 3)

ttt_xition(k, s) == put(s, (k % 9) \div 3, (k % 9) % 3)

\* The operators requested of the Tic-Tac-Toe runner: X in the first row,
\* O in the second, and an index that does not exist.
TTTRequests == {0, 1, 2, 12, 13, 18}

\* ----------------------------- a GameRunner of the Tic-Tac-Toe game
\* The runner's state_stack holds references: current_state and the
\* new_state of apply_operator are the object at the top of the stack.
\* Requests are made one at a time.
TTTRunner ==
    [state_stack |-> <<>>, op_history |-> <<NoOp>>, step |-> 0,
     finished |-> FALSE, pc |-> "new", op |-> NoOp, new_state |-> <<>>,
     outcome |-> "", payload |-> <<>>]

Top(stack) == stack[Len(stack)]

WithTop(stack, s) == [stack EXCEPT ![Len(stack)] = s]

\* _build_base_payload: is_goal is called on the current state.
ttt_payload(r) ==
    <<[step |-> r.step, is_goal |-> ttt_is_goal(Top(r.state_stack)),
       current_role_num |-> Top(r.state_stack).current_role_num]>>

\* start()
TTTStart ==
    /\ ttt.pc = "new"
    /\ ttt' = [ttt EXCEPT
                 !.state_stack = <<check_for_win(TTT_State)>>,
                 !.step = 0, !.finished = FALSE, !.pc = "idle",
                 !.payload = ttt_payload([ttt EXCEPT
                                            !.state_stack = <<TTT_State>>])]
    /\ UNCHANGED <<core_vars, ops_seen, mc, gma, loader_vars>>

\* apply_operator from the lock to the await of the transition function.
TTTApply(k) ==
    /\ ttt.pc = "idle"
    /\ ttt.step < MaxStep
    /\ ttt' =
         IF ttt.finished
         THEN [ttt EXCEPT !.outcome = "Game is already over."]
         ELSE IF ~(0 <= k /\ k < TTTNumOps)
         THEN [ttt EXCEPT !.outcome = "No operator with index."]
         ELSE IF ~ttt_precond(k, Top(ttt.state_stack))
         THEN [ttt EXCEPT !.outcome =
                 "That operator is not applicable in the current state."]
         ELSE [ttt EXCEPT !.pc = "xition", !.op = k, !.outcome = "",
                          !.new_state = <<ttt_xition(k, Top(ttt.state_stack))>>]
    /\ UNCHANGED <<core_vars, ops_seen, mc, gma, loader_vars>>

\* The transition function has returned: the new state is pushed and the
\* step counted; the transition message is handed to broadcast.
TTTXitionDone ==
    /\ ttt.pc = "xition"
    /\ ttt' = [ttt EXCEPT
                 !.state_stack = Append(ttt.state_stack, ttt.new_state[1]),
                 !.op_history = Append(ttt.op_history, ttt.op),
                 !.step = ttt.step + 1,
                 !.new_state = <<>>,
                 !.pc = "msg"]
    /\ UNCHANGED <<core_vars, ops_seen, mc, gma, loader_vars>>

\* After the transition message: new_state.is_goal() is evaluated on the
\* object at the top of the stack, then the state is broadcast.
TTTAfterTransitionMsg ==
    /\ ttt.pc = "msg"
    /\ LET tested == WithTop(ttt.state_stack,
                             check_for_win(Top(ttt.state_stack)))
       IN  ttt' = [ttt EXCEPT
                     !.state_stack = tested,
                     !.finished = ttt_is_goal(Top(ttt.state_stack)),
                     !.outcome = "ok",
                     !.payload = ttt_payload(ttt),
                     !.pc = "idle"]
    /\ UNCHANGED <<core_vars, ops_seen, mc, gma, loader_vars>>

\* undo()
TTTUndo ==
    /\ ttt.pc = "idle"
    /\ ttt.step < MaxStep
    /\ ttt' =
         IF ttt.finished
         THEN [ttt EXCEPT !.outcome = "Cannot undo after the game has ended."]
         ELSE IF Len(ttt.state_stack) <= 1
         THEN [ttt EXCEPT !.outcome =
                 "Already at the initial state; cannot undo further."]
         ELSE LET popped == SubSeq(ttt.state_stack, 1,
                                   Len(ttt.state_stack) - 1)
              IN  [ttt EXCEPT
                     !.state_stack = WithTop(popped, check_for_win(Top(popped))),
                     !.op_history = SubSeq(ttt.op_history, 1,
                                           Len(ttt.op_history) - 1),
                     !.step = ttt.step + 1,
                     !.outcome = "undone",
                     !.payload = ttt_payload([ttt EXCEPT
                                                !.state_stack = popped,
                                                !.step = ttt.step + 1])]
    /\ UNCHANGED <<core_vars, ops_seen, mc, gma, loader_vars>>

\* build_state_payload, called for a connection that opens: it may run
\* while an apply_operator waits on its broadcast.
TTTBuildStatePayload ==
    /\ ttt.pc \in {"idle", "msg"}
    /\ ttt.state_stack # <<>>
    /\ ttt' = [ttt EXCEPT
                 !.state_stack = WithTop(ttt.state_stack,
                                         check_for_win(Top(ttt.state_stack))),
                 !.payload = ttt_payload(ttt)]
    /\ UNCHANGED <<core_vars, ops_seen, mc, gma, loader_vars>>

NextTTT ==
    \/ TTTStart
    \/ \E k \in TTTRequests : TTTApply(k)
    \/ TTTXitionDone
    \/ TTTAfterTransitionMsg
    \/ TTTUndo
    \/ TTTBuildStatePayload

\* ------------------------------------------------ Missionaries_SZ6.py
M == 0
C == 1
LEFT == 0
RIGHT == 1
MC_COMBINATIONS == <<<<1, 0>>, <<2, 0>>, <<3, 0>>, <<1, 1>>, <<2, 1>>>>

\* MC_State(): everybody and the boat on the left bank; people[kind][side].
MC_State ==
    [people |-> [kind \in {M, C} |-> [side \in {LEFT, RIGHT} |->
                    IF side = LEFT THEN 3 ELSE 0]],
     boat |-> LEFT, current_role_num |-> 0]

can_move(s, m, c) ==
    LET side == s.boat
        p == s.people
        m_remaining == p[M][side] - m
        c_remaining == p[C][side] - c
        m_at_arrival == p[M][1 - side] + m
        c_at_arrival == p[C][1 - side] + c
    IN  /\ ~(m < 1)
        /\ ~(p[M][side] < m)
        /\ ~(p[C][side] < c)
        /\ ~(m_remaining > 0 /\ m_remaining < c_remaining)
        /\ ~(m_at_arrival > 0 /\ m_at_arrival < c_at_arrival)

move(s, m, c) ==
    LET side == s.boat
    IN  [s EXCEPT !.people[M][side] = @ - m,
                  !.people[C][side] = @ - c,
                  !.people[M][1 - side] = @ + m,
                  !.people[C][1 - side] = @ + c,
                  !.boat = 1 - side]

mc_is_goal(s) == s.people[M][RIGHT] = 3 /\ s.people[C][RIGHT] = 3

\* get_ops_info for the five operators (none declares a role): the indices
\* of the applicable ones, in the order of the operator list.
mc_applicable(s) ==
    {k \in 0 .. 4 : can_move(s, MC_COMBINATIONS[k + 1][1],
                                MC_COMBINATIONS[k + 1][2])}

\* --------------------------------------- trigger_bots_for_session
\* `for _ in range(20):  # safety limit`
SafetyLimit == 20

\* The for loop has no iteration left.
loop_exhausted(iter) == iter >= SafetyLimit

\* A session of the Missionaries game whose only role, Solver (0), is
\* played by a bot: the runner (current_state, step, finished), the bot,
\* and the position of trigger_bots_for_session (iter = iterations begun).
MCSession ==
    [state |-> <<>>, step |-> 0, finished |-> FALSE, bot_role |-> 0,
     strategy |-> "first", pc |-> "new", iter |-> 0, chosen |-> -1,
     did_move |-> FALSE]

\* The lobby starts the game: runner.start(), then the bots are triggered
\* with ensure_future because a bot plays the role that moves first.
MCStart(strategy) ==
    /\ mc.pc = "new"
    /\ mc' = [mc EXCEPT !.state = <<MC_State>>, !.step = 0,
                        !.finished = mc_is_goal(MC_State),
                        !.strategy = strategy, !.pc = "loop", !.iter = 0]
    /\ UNCHANGED <<core_vars, ops_seen, ttt, gma, loader_vars>>

\* One pass of the loop up to the bot's await: the loop ends, or the
\* game is over, or the bot has no move (trigger returns), or the bot has
\* chosen its operator and sleeps.
MCLoop ==
    /\ mc.pc = "loop"
    /\ IF loop_exhausted(mc.iter)
       THEN mc' = [mc EXCEPT !.pc = "returned", !.did_move = FALSE]
       ELSE IF mc.finished
       THEN mc' = [mc EXCEPT !.pc = "returned", !.iter = @ + 1,
                             !.did_move = FALSE]
       ELSE IF \/ mc.state[1].current_role_num # mc.bot_role
               \/ mc_applicable(mc.state[1]) = {}
       THEN mc' = [mc EXCEPT !.pc = "returned", !.iter = @ + 1,
                             !.did_move = FALSE]
       ELSE \E k \in mc_applicable(mc.state[1]) :
               /\ mc.strategy = "first"
                     => \A j \in mc_applicable(mc.state[1]) : k <= j
               /\ mc' = [mc EXCEPT !.pc = "sleep", !.iter = @ + 1,
                                   !.chosen = k, !.did_move = FALSE]
    /\ UNCHANGED <<core_vars, ops_seen, ttt, gma, loader_vars>>

\* The bot's apply_operator from the lock to the transition function.
MCApply ==
    /\ mc.pc = "sleep"
    /\ mc' = [mc EXCEPT !.pc = "xition"]
    /\ UNCHANGED <<core_vars, ops_seen, ttt, gma, loader_vars>>

\* The transition function has returned: the state is pushed, the step
\* counted, the goal tested and the state broadcast; maybe_move returns
\* the index, and the loop ends if the game is over.
MCXitionDone ==
    /\ mc.pc = "xition"
    /\ LET new_state == move(mc.state[1],
                             MC_COMBINATIONS[mc.chosen + 1][1],
                             MC_COMBINATIONS[mc.chosen + 1][2])
       IN  mc' = [mc EXCEPT !.state = <<new_state>>,
                            !.step = @ + 1,
                            !.finished = mc_is_goal(new_state),
                            !.did_move = TRUE,
                            !.pc = IF mc_is_goal(new_state)
                                   THEN "returned" ELSE "loop"]
    /\ UNCHANGED <<core_vars, ops_seen, ttt, gma, loader_vars>>

NextBots ==
    \/ \E strategy \in Strategies : MCStart(strategy)
    \/ MCLoop
    \/ MCApply
    \/ MCXitionDone

\* ------------------------------------------------ Guess_My_Age_SZ6.py
\* One session of Guess-My-Age: the game is started, the player guesses,
\* the owner pauses and resumes.  The secret age is per-instance data that
\* initialize_problem chooses and the operator captures in a closure
\* (lines 118-136, 164-173).
MIN_AGE == 14
MAX_AGE == 21
Ages == MIN_AGE .. MAX_AGE

\* GMA_State() (lines 60-64); jit_transition is set by handle_guess only
\* (<<>> while the attribute is absent).
GMA_State ==
    [n_guesses |-> 0, win |-> FALSE, current_role_num |-> 0,
     jit_transition |-> <<>>]

\* GMA_State.handle_guess(args, secret_age) with args[0] = guess (lines
\* 90-108): the copy, one more guess, win and the message with its hint.
handle_guess(s, guess, secret_age) ==
    [n_guesses        |-> s.n_guesses + 1,
     win              |-> guess = secret_age,
     current_role_num |-> s.current_role_num,
     jit_transition   |->
         IF guess = secret_age THEN <<guess, "You got it!", secret_age>>
         ELSE IF guess < secret_age THEN <<guess, "Too low. ">>
         ELSE <<guess, "Too high. ">>]

\* serialize_state / deserialize_state of a GMA_State (state_serializer.py
\* lines 18-50): the attributes of vars(state) and '__class__'; the new
\* object gets every key but '__class__'.
gma_serialize_state(s) ==
    [n_guesses |-> s.n_guesses, win |-> s.win,
     current_role_num |-> s.current_role_num,
     jit_transition |-> s.jit_transition, class |-> "GMA_State"]
gma_deserialize_state(data) ==
    [n_guesses |-> data.n_guesses, win |-> data.win,
     current_role_num |-> data.current_role_num,
     jit_transition |-> data.jit_transition]

\* The session before start_game: no runner; a formulation's operators are
\* None until initialize_problem (line 162), secret_age 0 stands for that.
GMASession ==
    [pc |-> "lobby", secret_age |-> 0, state |-> <<>>, step |-> 0,
     finished |-> FALSE, checkpoint |-> <<>>, paused_secret |-> 0,
     runner_gen |-> 0]

\* _handle_start_game and runner.start(): initialize_problem of the loaded
\* formulation draws the secret with random.randint(MIN_AGE, MAX_AGE) and
\* builds the operators around it.
GMAStart(secret_age) ==
    /\ gma.pc = "lobby"
    /\ gma' = [gma EXCEPT !.pc = "in_progress", !.secret_age = secret_age,
                          !.state = <<GMA_State>>, !.step = 0,
                          !.finished = FALSE]
    /\ UNCHANGED <<core_vars, ops_seen, ttt, mc, loader_vars>>

\* apply_operator(0, [guess]) on the session's runner, to its return: the
\* operator of the runner's formulation is applied (game_runner.py lines
\* 95-169); a finished game refuses.
GMAGuess(guess) ==
    /\ gma.pc = "in_progress"
    /\ gma.step < MaxStep
    /\ IF gma.finished
       THEN UNCHANGED gma
       ELSE LET new_state == handle_guess(gma.state[1], guess, gma.secret_age)
            IN  gma' = [gma EXCEPT !.state = <<new_state>>,
                                   !.step = @ + 1,
                                   !.finished = new_state.win]
    /\ UNCHANGED <<core_vars, ops_seen, ttt, mc, loader_vars>>

\* _handle_pause (game_consumer.py lines 214-233) with save_checkpoint
\* (checkpoint.py lines 53-61): the step and the serialized state are
\* stored; nothing of the formulation is.
GMAPause ==
    /\ gma.pc = "in_progress"
    /\ ~gma.finished
    /\ gma.runner_gen < MaxRunners
    /\ gma' = [gma EXCEPT !.pc = "paused",
                          !.checkpoint =
                              <<[state |-> gma_serialize_state(gma.state[1]),
                                 step |-> gma.step]>>]
    /\ UNCHANGED <<core_vars, ops_seen, ttt, mc, loader_vars>>

\* _resume_from_checkpoint (lobby_consumer.py lines 401-439): a formulation
\* is loaded anew, load_checkpoint calls its initialize_problem() to find
\* the state class (checkpoint.py lines 101-104), which draws a secret and
\* builds the operators of the new runner; the state and step come from
\* the checkpoint.
GMAResume(secret_age) ==
    /\ gma.pc = "paused"
    /\ gma' = [gma EXCEPT
                 !.pc = "in_progress",
                 !.paused_secret = gma.secret_age,
                 !.secret_age = secret_age,
                 !.state = <<gma_deserialize_state(gma.checkpoint[1].state)>>,
                 !.step = gma.checkpoint[1].step,
                 !.finished = FALSE,
                 !.runner_gen = @ + 1]
    /\ UNCHANGED <<core_vars, ops_seen, ttt, mc, loader_vars>>

NextGMA ==
    \/ \E secret_age \in Ages : GMAStart(secret_age)
    \/ \E guess \in Ages : GMAGuess(guess)
    \/ GMAPause
    \/ \E secret_age \in Ages : GMAResume(secret_age)

\* ------------------------------------------------------ pff_loader.py
\* What load_formulation finds at the game's path: a game file that loads,
\* no game directory, a directory without a .py file, a file whose
\* execution raises an Exception, raises PFFLoadError itself, or leaves
\* by SystemExit (sys.exit() at module level), and a file that defines no
\* formulation object.
LoadInputs ==
    {"ok", "no_dir", "no_py", "raises", "raises_PFFLoadError", "exits",
     "no_formulation"}

\* The number of load_formulation calls followed.
MaxLoads == 3

\* uuid.uuid4().hex is modelled as a value never drawn before: the n-th
\* value drawn is n.
unique_name(n) == <<"_pff_occluedo", n>>

\* A variant of the code: the module object of an earlier load is used
\* again when there is one.
module_from_spec_cached(heap) == 1

\* importlib.util.module_from_spec: a new module object, the next one of
\* the heap of module objects.
module_from_spec(heap) == Len(heap) + 1

\* The globals of OCCLUEdo_SZ6.py after the module has been executed.
\* None is written -1 for an index and <<>> for the list of hands.
OCCLUEdo_module ==
    [MURDERER |-> -1, CRIME_ROOM |-> -1, CRIME_WEAPON |-> -1,
     PLAYER_HAND |-> <<>>]

\* What random.choice and _shuffle may give in deal(): the model deals
\* among two characters, two rooms and one weapon, to the roles 0 and 1,
\* and the crime is in room 0 with weapon 0.
MurdererChoices == {0, 1}
RoomChoices == {0}
WeaponChoices == {0}
ShuffleChoices == {0, 1}

\* deal(active_roles = [0, 1]): the globals it assigns.  The deck is the
\* cards that are not the solution, shuffled, dealt in turn.
deal(m, r, w, sh) ==
    LET deck == IF sh = 0 THEN <<<<"p", 1 - m>>, <<"r", 1 - r>>>>
                ELSE <<<<"r", 1 - r>>, <<"p", 1 - m>>>>
    IN  [MURDERER |-> m, CRIME_ROOM |-> r, CRIME_WEAPON |-> w,
         PLAYER_HAND |-> <<<<deck[1]>>, <<deck[2]>>>>]

\* OCCLUEdo_State(active_roles = [0, 1]), the fields the accusation uses;
\* None is written -1.
OCCLUEdo_State ==
    [whose_turn |-> 0, current_role_num |-> 0, accusation_phase |-> 0,
     current_accusation |-> <<>>, inactive_players |-> <<>>,
     winner |-> -1]

\* The accusations made: <<room, character, weapon>>.
Accusations == {<<0, 0, 0>>, <<0, 1, 0>>}

\* ask_win, with the globals of the module the function was defined in.
ask_win(g, s) ==
    LET acc == s.current_accusation
        win == /\ acc[1] = g.CRIME_ROOM
               /\ acc[2] = g.MURDERER
               /\ acc[3] = g.CRIME_WEAPON
    IN  IF win
        THEN [s EXCEPT !.winner = s.whose_turn, !.whose_turn = -1,
                       !.current_role_num = -1]
        ELSE [s EXCEPT !.inactive_players = Append(@, s.whose_turn),
                       !.accusation_phase = 0,
                       !.current_accusation = <<>>,
                       !.winner = 1 - s.whose_turn,
                       !.whose_turn = -1,
                       !.current_role_num = -1]

\* What the last step on the loader's side was: the number of
\* load_formulation calls so far and, of the last one, the input, what it
\* raised and the name it made; actor is the play-through acted on (0 for
\* a load that failed).
NoLoad ==
    [n |-> 0, input |-> "", raised |-> "", name |-> <<>>, actor |-> 0]

\* load_formulation(game_slug, games_repo_root), run in a thread by the
\* handler that sets a play-through up.
LoadFormulation(input) ==
    /\ load_last.n < MaxLoads
    /\ IF input \in {"no_dir", "no_py"}
       THEN /\ load_last' = [n |-> load_last.n + 1, input |-> input,
                             raised |-> "PFFLoadError", name |-> <<>>,
                             actor |-> 0]
            /\ UNCHANGED <<sys_modules, modules, formulations, uuid_count>>
       ELSE LET name == unique_name(uuid_count + 1)
                module == module_from_spec(modules)
                executed == IF module > Len(modules)
                            THEN Append(modules, OCCLUEdo_module)
                            ELSE [modules EXCEPT ![module] = OCCLUEdo_module]
                entry == [name |-> name, module |-> module]
            IN  /\ uuid_count' = uuid_count + 1
                /\ CASE input = "raises" ->
                          /\ load_last' = [n |-> load_last.n + 1,
                                           input |-> input,
                                           raised |-> "PFFLoadError",
                                           name |-> name, actor |-> 0]
                          /\ UNCHANGED <<sys_modules, modules, formulations>>
                     [] input = "no_formulation" ->
                          /\ load_last' = [n |-> load_last.n + 1,
                                           input |-> input,
                                           raised |-> "PFFLoadError",
                                           name |-> name, actor |-> 0]
                          /\ UNCHANGED <<sys_modules, modules, formulations>>
                     [] input = "raises_PFFLoadError" ->
                          /\ load_last' = [n |-> load_last.n + 1,
                                           input |-> input,
                                           raised |-> "PFFLoadError",
                                           name |-> name, actor |-> 0]
                          /\ sys_modules' = sys_modules \union {entry}
                          /\ modules' = executed
                          /\ UNCHANGED formulations
                     [] input = "exits" ->
                          /\ load_last' = [n |-> load_last.n + 1,
                                           input |-> input,
                                           raised |-> "SystemExit",
                                           name |-> name, actor |-> 0]
                          /\ sys_modules' = sys_modules \union {entry}
                          /\ modules' = executed
                          /\ UNCHANGED formulations
                     [] input = "ok" ->
                          /\ load_last' = [n |-> load_last.n + 1,
                                           input |-> input,
                                           raised |-> "none",
                                           name |-> name,
                                           actor |-> Len(formulations) + 1]
                          /\ sys_modules' = sys_modules \union {entry}
                          /\ modules' = executed
                          /\ formulations' = Append(formulations,
                                [module |-> module,
                                 _pff_module_name |-> name,
                                 instance_data |-> <<>>,
                                 runner |-> FALSE,
                                 current_state |-> <<>>])
    /\ UNCHANGED <<core_vars, ops_seen, ttt, mc, gma>>

\* The handler goes on after a load that returned: it makes the
\* GameRunner of the play-through.
MakeRunner(i) ==
    /\ ~formulations[i].runner
    /\ formulations' = [formulations EXCEPT ![i].runner = TRUE]
    /\ load_last' = [load_last EXCEPT !.actor = i]
    /\ UNCHANGED <<sys_modules, modules, uuid_count>>
    /\ UNCHANGED <<core_vars, ops_seen, ttt, mc, gma>>

\* runner.start(): initialize_problem deals into the globals of the
\* formulation's module and copies them to instance_data.
InitializeProblem(i, m, r, w, sh) ==
    /\ formulations[i].runner
    /\ formulations[i].current_state = <<>>
    /\ modules' = [modules EXCEPT ![formulations[i].module] = deal(m, r, w, sh)]
    /\ formulations' =
         [formulations EXCEPT
            ![i].instance_data =
                 <<[player_hand |-> deal(m, r, w, sh).PLAYER_HAND,
                    crime_solution |-> <<m, r, w>>]>>,
            ![i].current_state = <<OCCLUEdo_State>>]
    /\ load_last' = [load_last EXCEPT !.actor = i]
    /\ UNCHANGED <<sys_modules, uuid_count>>
    /\ UNCHANGED <<core_vars, ops_seen, ttt, mc, gma>>

\* The operators that start an accusation and name its room, character
\* and weapon, taken together: current_accusation becomes
\* [room, character, weapon, whose_turn].
Accuse(i, acc) ==
    /\ formulations[i].current_state # <<>>
    /\ formulations[i].current_state[1].winner = -1
    /\ formulations[i].current_state[1].accusation_phase = 0
    /\ formulations' =
         [formulations EXCEPT
            ![i].current_state[1].current_accusation =
                 Append(acc, formulations[i].current_state[1].whose_turn),
            ![i].current_state[1].accusation_phase = 4]
    /\ load_last' = [load_last EXCEPT !.actor = i]
    /\ UNCHANGED <<sys_modules, modules, uuid_count>>
    /\ UNCHANGED <<core_vars, ops_seen, ttt, mc, gma>>

\* The operator that asks whether the accusation is right.
AskWin(i) ==
    /\ formulations[i].current_state # <<>>
    /\ formulations[i].current_state[1].accusation_phase = 4
    /\ formulations' =
         [formulations EXCEPT
            ![i].current_state =
                 <<ask_win(modules[formulations[i].module],
                           formulations[i].current_state[1])>>]
    /\ load_last' = [load_last EXCEPT !.actor = i]
    /\ UNCHANGED <<sys_modules, modules, uuid_count>>
    /\ UNCHANGED <<core_vars, ops_seen, ttt, mc, gma>>

NextLoad ==
    \/ \E input \in LoadInputs : LoadFormulation(input)
    \/ \E i \in 1 .. Len(formulations) : MakeRunner(i)
    \/ \E i \in 1 .. Len(formulations) :
         \E m \in MurdererChoices, r \in RoomChoices, w \in WeaponChoices,
            sh \in ShuffleChoices : InitializeProblem(i, m, r, w, sh)
    \/ \E i \in 1 .. Len(formulations) : \E acc \in Accusations : Accuse(i, acc)
    \/ \E i \in 1 .. Len(formulations) : AskWin(i)

\* Outside the specifications that are about them: no get_ops_info result
\* recorded, the Tic-Tac-Toe runner and the Missionaries session not begun,
\* no game module loaded.
SideInit ==
    /\ ops_seen = <<>>
    /\ ttt = TTTRunner
    /\ mc = MCSession
    /\ gma = GMASession
    /\ sys_modules = {}
    /\ modules = <<>>
    /\ formulations = <<>>
    /\ uuid_count = 0
    /\ load_last = NoLoad

\* The session as _handle_start_game leaves it at line 358: a GameRunner
\* just constructed (lines 67-76) is stored with status 'in_progress', and
\* start() has not run yet.
Init ==
    /\ state_stack = <<>>
    /\ op_history = <<NoOp>>
    /\ current_state = NoState
    /\ step = 0
    /\ finished = FALSE
    /\ locked = FALSE
    /\ waiters = <<>>
    /\ running = <<>>
    /\ bcast = <<>>
    /\ accepted = <<>>
    /\ before_apply = NoSnapshot
    /\ last = NoRequest
    /\ allow_undo \in AllowUndoInputs
    /\ next_uid = 1
    /\ status = "in_progress"
    /\ latest_checkpoint = <<>>
    /\ pending_checkpoint = <<>>
    /\ runner_gen = 1
    /\ lobby_pc = "starting"
    /\ players = TwoHumans
    /\ next_token = 3
    /\ bots = <<>>
    /\ drivers = [d \in 1 .. MaxDrivers |-> Off]
    /\ SideInit

\* The sessions played: who holds P1 and P2, each with a third player who
\* was given no role (Observer).
PlayConfigs ==
    { TwoHumans @@ Observer,
      (1 :> PlayerInfo(P1, TRUE, "first"))
          @@ (2 :> PlayerInfo(P2, FALSE, "random")) @@ Observer,
      (1 :> PlayerInfo(P1, FALSE, "random"))
          @@ (2 :> PlayerInfo(P2, TRUE, "random")) @@ Observer,
      (1 :> PlayerInfo(P1, TRUE, "first"))
          @@ (2 :> PlayerInfo(P2, TRUE, "first")) @@ Observer }

\* A session whose start_game handler has built the runner and the bots
\* from its RoleManager and is about to await runner.start().
InitPlay ==
    /\ state_stack = <<>>
    /\ op_history = <<NoOp>>
    /\ current_state = NoState
    /\ step = 0
    /\ finished = FALSE
    /\ locked = FALSE
    /\ waiters = <<>>
    /\ running = <<>>
    /\ bcast = <<>>
    /\ accepted = <<>>
    /\ before_apply = NoSnapshot
    /\ last = NoRequest
    /\ allow_undo \in AllowUndoInputs
    /\ next_uid = 1
    /\ status = "in_progress"
    /\ latest_checkpoint = <<>>
    /\ pending_checkpoint = <<>>
    /\ runner_gen = 1
    /\ lobby_pc = "starting"
    /\ players \in PlayConfigs
    /\ next_token = MaxTokens + 1
    /\ bots = make_bots(players)
    /\ drivers = [d \in 1 .. MaxDrivers |-> Off]
    /\ SideInit

\* The game as played through its connections and its bots.
NextPlay ==
    \/ Start
    \/ \E t \in Conns, k \in OpRequests : HandleApply(t, k)
    \/ \E t \in Conns : HandleUndo(t)
    \/ \E d \in 1 .. MaxDrivers : Poll(d)
    \/ \E d \in 1 .. MaxDrivers : Act(d)
    \/ PlayWake
    \/ \E i \in 1 .. Len(running) : PlayXitionDone(i)
    \/ \E i \in 1 .. Len(running) : PlayAfterTransitionMsg(i)
    \/ \E i \in 1 .. Len(running) : PlayAfterGoalStateUpdate(i)
    \/ \E i \in 1 .. Len(running) : PlayCallReturn(i)

\* As Init, with a third player who was given no role.
InitView ==
    /\ state_stack = <<>>
    /\ op_history = <<NoOp>>
    /\ current_state = NoState
    /\ step = 0
    /\ finished = FALSE
    /\ locked = FALSE
    /\ waiters = <<>>
    /\ running = <<>>
    /\ bcast = <<>>
    /\ accepted = <<>>
    /\ before_apply = NoSnapshot
    /\ last = NoRequest
    /\ allow_undo \in AllowUndoInputs
    /\ next_uid = 1
    /\ status = "in_progress"
    /\ latest_checkpoint = <<>>
    /\ pending_checkpoint = <<>>
    /\ runner_gen = 1
    /\ lobby_pc = "starting"
    /\ players = TwoHumans @@ Observer
    /\ next_token = MaxTokens + 1
    /\ bots = <<>>
    /\ drivers = [d \in 1 .. MaxDrivers |-> Off]
    /\ SideInit

\* One runner from construction on: start() and the calls made on it.
NextRunner ==
    \/ Start
    \/ \E k \in OpRequests : ApplyCall(k)
    \/ UndoCall
    \/ Wake
    \/ \E i \in 1 .. Len(running) : XitionDone(i)
    \/ \E i \in 1 .. Len(running) : AfterTransitionMsg(i)
    \/ \E i \in 1 .. Len(running) : AfterGoalStateUpdate(i)
    \/ \E i \in 1 .. Len(running) : CallReturn(i)

\* The session: its runner, pause, and resume with a new runner.
NextSession ==
    \/ NextRunner
    \/ PauseSave
    \/ PauseCommit
    \/ ResumeSeed
    \/ ResumeBroadcast

Spec == Init /\ [][NextRunner]_vars
SpecPlay == InitPlay /\ [][NextPlay]_vars

\* A session from its creation: the lobby, the start, pause and resume.  No
\* move is made in the game.
InitLobby ==
    /\ state_stack = <<>>
    /\ op_history = <<NoOp>>
    /\ current_state = NoState
    /\ step = 0
    /\ finished = FALSE
    /\ locked = FALSE
    /\ waiters = <<>>
    /\ running = <<>>
    /\ bcast = <<>>
    /\ accepted = <<>>
    /\ before_apply = NoSnapshot
    /\ last = NoRequest
    /\ allow_undo = {}
    /\ next_uid = 1
    /\ status = "lobby"
    /\ latest_checkpoint = <<>>
    /\ pending_checkpoint = <<>>
    /\ runner_gen = 1
    /\ lobby_pc = "idle"
    /\ players = <<>>
    /\ next_token = 1
    /\ bots = <<>>
    /\ drivers = [d \in 1 .. MaxDrivers |-> Off]
    /\ SideInit

NextLobby ==
    \/ LobbyConnect
    \/ \E t \in TokenInputs : LobbyDisconnect(t)
    \/ \E t \in TokenInputs, r \in RoleInputs : HandleAssignRole(t, r)
    \/ \E r \in RoleInputs : HandleUnassignRole(r)
    \/ \E r \in RoleInputs, s \in Strategies : HandleAssignBot(r, s)
    \/ StartValidate
    \/ StartCommit
    \/ Start
    \/ PauseSave
    \/ PauseCommit
    \/ ResumeSeed
    \/ ResumeBroadcast

SpecLobby == InitLobby /\ [][NextLobby]_vars

\* A request made while no call is in progress on the runner and the
\* session is in progress.
Solo == Len(running) + Len(waiters) = 0 /\ status = "in_progress"

SoloApply(k) == Solo /\ ApplyCall(k)

SoloUndo == Solo /\ UndoCall

SoloPause == Solo /\ PauseSave

\* The session played one request at a time, paused and resumed: a request to
\* apply, undo or pause is made while the session is in progress and no call
\* is running.
NextResume ==
    \/ Start
    \/ \E k \in OpRequests : SoloApply(k)
    \/ SoloUndo
    \/ \E i \in 1 .. Len(running) : XitionDone(i)
    \/ \E i \in 1 .. Len(running) : AfterTransitionMsg(i)
    \/ \E i \in 1 .. Len(running) : AfterGoalStateUpdate(i)
    \/ \E i \in 1 .. Len(running) : CallReturn(i)
    \/ SoloPause
    \/ PauseCommit
    \/ ResumeSeed
    \/ ResumeBroadcast

SpecResume == Init /\ [][NextResume]_vars

\* The moves of the game P1 wins 3-0: P1 chooses Rock, P2 chooses Scissors,
\* the next round is started.
PauseRequests == {0, 5, 6}

\* No call is in progress on the runner.  The handlers of the game
\* connection look at no status before they call the runner.
Quiet == Len(running) + Len(waiters) = 0

QuietApply(k) == Quiet /\ ApplyCall(k)

\* The shipped game: no operator declares allow_undo.
InitPause == Init /\ allow_undo = {}

\* The session played one move at a time, whatever its status, with the
\* owner's pause request arriving at any moment, also while a call is inside
\* the runner.
NextPause ==
    \/ Start
    \/ \E k \in PauseRequests : QuietApply(k)
    \/ \E i \in 1 .. Len(running) : XitionDone(i)
    \/ \E i \in 1 .. Len(running) : AfterTransitionMsg(i)
    \/ \E i \in 1 .. Len(running) : AfterGoalStateUpdate(i)
    \/ \E i \in 1 .. Len(running) : CallReturn(i)
    \/ PauseSave
    \/ PauseCommit
    \/ ResumeSeed
    \/ ResumeBroadcast
    \/ RunGameEnded

SpecPause == InitPause /\ [][NextPause]_vars

\* The lobby and the game it starts: players join and get roles, the owner
\* sends start_game from the lobby and again while the game is played (P1
\* makes the first move).
NextStart ==
    \/ LobbyConnect
    \/ \E t \in TokenInputs, r \in RoleInputs : HandleAssignRole(t, r)
    \/ StartValidate
    \/ StartValidateRunning
    \/ StartCommit
    \/ Start
    \/ QuietApply(0)
    \/ \E i \in 1 .. Len(running) : XitionDone(i)
    \/ \E i \in 1 .. Len(running) : CallReturn(i)

SpecStart == InitLobby /\ [][NextStart]_vars

\* The game played over the connections of P1 and P2, no bots.  A call that
\* holds or awaits the lock goes on: the event loop resumes a coroutine
\* whose await has completed, and the transition function's thread and the
\* broadcast are taken to terminate.
NextLive ==
    \/ Start
    \/ \E t \in Conns, k \in OpRequests : HandleApply(t, k)
    \/ \E t \in Conns : HandleUndo(t)
    \/ PlayWake
    \/ \E i \in 1 .. Len(running) : PlayXitionDone(i)
    \/ \E i \in 1 .. Len(running) : PlayAfterTransitionMsg(i)
    \/ \E i \in 1 .. Len(running) : PlayAfterGoalStateUpdate(i)
    \/ \E i \in 1 .. Len(running) : PlayCallReturn(i)

SpecLive ==
    /\ InitPause
    /\ [][NextLive]_vars
    /\ WF_vars(PlayWake)
    /\ WF_vars(\E i \in 1 .. Len(running) : PlayXitionDone(i))
    /\ WF_vars(\E i \in 1 .. Len(running) : PlayAfterTransitionMsg(i))
    /\ WF_vars(\E i \in 1 .. Len(running) : PlayAfterGoalStateUpdate(i))
    /\ WF_vars(\E i \in 1 .. Len(running) : PlayCallReturn(i))

\* One runner and the connections that watch it.
NextView ==
    \/ NextRunner
    \/ \E t \in Conns : Connect(t)

SpecView == InitView /\ [][NextView]_vars

SpecSession == Init /\ [][NextSession]_vars

\* One runner, its requests made one at a time, with every operator of the
\* game among them.
NextRound ==
    \/ Start
    \/ \E k \in OpIndices : SoloApply(k)
    \/ SoloUndo
    \/ \E i \in 1 .. Len(running) : XitionDone(i)
    \/ \E i \in 1 .. Len(running) : AfterTransitionMsg(i)
    \/ \E i \in 1 .. Len(running) : AfterGoalStateUpdate(i)
    \/ \E i \in 1 .. Len(running) : CallReturn(i)

SpecRound == Init /\ [][NextRound]_vars

\* One runner, its requests made one at a time, and the calls of
\* get_ops_info made on it at any moment.
NextOps ==
    \/ Start
    \/ \E k \in OpRequests : SoloApply(k)
    \/ SoloUndo
    \/ \E i \in 1 .. Len(running) : XitionDone(i)
    \/ \E i \in 1 .. Len(running) : AfterTransitionMsg(i)
    \/ \E i \in 1 .. Len(running) : AfterGoalStateUpdate(i)
    \/ \E i \in 1 .. Len(running) : CallReturn(i)
    \/ GetOpsInfo

SpecOps == Init /\ [][NextOps]_vars

\* The runner of a Tic-Tac-Toe game.
SpecTTT == Init /\ [][NextTTT]_vars

\* A Missionaries session whose bot is driven by trigger_bots_for_session.
SpecBots == Init /\ [][NextBots]_vars

\* Play-throughs of one game set up by load_formulation and played.
SpecLoad == Init /\ [][NextLoad]_vars

\* A session of Guess-My-Age that is paused and resumed.
SpecGMA == Init /\ [][NextGMA]_vars

\* ---------------------------------------------------------- properties
\* What a step does to the requests.  A request is processed in the step in
\* which it gets the lock: it is rejected there (last' names it and the
\* GameError), or it enters the locked block (a call is added to running).
Rejections == ApplyRejections \cup UndoRejections
Rejected == last' # NoRequest /\ last'.outcome \in Rejections
Entered == Len(running') = Len(running) + 1
ApplyEntered == Entered /\ running'[Len(running')].kind = "apply"
ApplyAccepted ==
    /\ Len(accepted') = Len(accepted) + 1
    /\ accepted'[Len(accepted')].kind = "apply"
UndoAccepted ==
    /\ Len(accepted') = Len(accepted) + 1
    /\ accepted'[Len(accepted')].kind = "undo"
UndoRejected == last' # NoRequest /\ last'.kind = "undo" /\ last'.outcome \in UndoRejections
UndoProcessed == UndoAccepted \/ UndoRejected

ParallelGuardMessage ==
    "Undo is not allowed after a move made during a parallel input phase."

\* op_history as the accepted requests, taken one after the other, build it.
RECURSIVE Replay(_)
Replay(reqs) ==
    IF reqs = <<>> THEN <<NoOp>>
    ELSE LET before == Replay(SubSeq(reqs, 1, Len(reqs) - 1))
             r == reqs[Len(reqs)]
         IN  IF r.kind = "apply" THEN Append(before, r.op_index)
             ELSE SubSeq(before, 1, Len(before) - 1)

\* C1: concurrent apply_operator and undo calls take effect one at a time, in
\* some total order: every state above the bottom of state_stack is the result
\* of the operator recorded beside it in op_history, applied to the state just
\* below it, where its precondition held; and op_history is what the accepted
\* requests give when taken in the order of their acceptance, so that no
\* accepted move is lost or overwritten.
C1_Linearizable ==
    /\ \A i \in 1 .. Len(state_stack) - 1 :
          LET k == op_history[i + 1]
          IN  /\ k \in OpIndices
              /\ precond_func(k, state_stack[i])
              /\ state_stack[i + 1] =
                     state_xition_func(k, state_stack[i], state_stack[i + 1].uid)
    /\ op_history = Replay(accepted)
    /\ state_stack # <<>> => Len(state_stack) = Len(Replay(accepted))

\* Two moves have been accepted one after the other, and the transition of a
\* further one is running while another caller is queued on the lock.
C1_Witness ==
    /\ Len(accepted) >= 2
    /\ accepted[Len(accepted)].kind = "apply"
    /\ accepted[Len(accepted) - 1].kind = "apply"
    /\ Len(running) = 1
    /\ running[1].pc = "xition"
    /\ waiters # <<>>

\* C2: in every state of the runner, from construction on, state_stack and
\* op_history have the same length.
C2_StackHistoryParity == Len(state_stack) = Len(op_history)

\* C3: whenever state_stack is not empty, current_state is its last element,
\* at every point where another coroutine can run.
C3_CurrentIsTop ==
    state_stack # <<>> => current_state = state_stack[Len(state_stack)]

\* An accepted undo is suspended in its broadcast, above the initial state.
C3_Witness ==
    /\ Len(running) = 1
    /\ running[1].pc = "undo_sent"
    /\ Len(state_stack) >= 2

\* The GameError C4 expects for an apply_operator(k) processed in a state.
C4_ApplyReason(k) ==
    IF finished THEN "Game is already over."
    ELSE IF k \notin OpIndices THEN "No operator with index."
    ELSE "That operator is not applicable in the current state."

\* The GameError C4 expects for an undo processed in a state.
C4_UndoReason ==
    IF finished THEN "Cannot undo after the game has ended."
    ELSE IF Len(state_stack) <= 1
         THEN "Already at the initial state; cannot undo further."
    ELSE ParallelGuardMessage

\* C4: a request is rejected as a GameError, with the reason of its case, when
\* the game is finished, the index is out of range or the precondition is
\* false (apply_operator), and when the game is finished, the stack holds only
\* the initial state or the parallel-phase guard applies (undo); a rejected
\* request leaves state_stack, op_history, current_state, step and finished
\* unchanged and hands nothing to broadcast.
C4_RejectionLeavesRunner ==
    [][ /\ Rejected => UNCHANGED <<runner_vars, bcast>>
        /\ ApplyEntered =>
              LET k == running'[Len(running')].op_index
              IN  ~finished /\ k \in OpIndices /\ precond_func(k, current_state)
        /\ UndoAccepted =>
              /\ ~finished
              /\ Len(state_stack) > 1
              /\ ~(state_stack[Len(state_stack) - 1].parallel
                   /\ op_history[Len(op_history)] \notin allow_undo)
        /\ (Rejected /\ last'.kind = "apply") =>
              last'.outcome = C4_ApplyReason(last'.op_index)
        /\ (Rejected /\ last'.kind = "undo") => last'.outcome = C4_UndoReason
      ]_vars

\* An applicable-looking move was rejected for its precondition after play
\* had begun, with broadcasts already made.
C4_Witness ==
    /\ last.kind = "apply"
    /\ last.outcome = "That operator is not applicable in the current state."
    /\ Len(state_stack) >= 2
    /\ bcast # <<>>

\* C5: when the transition function raises, the caller gets a GameError, the
\* runner's fields are unchanged, nothing is handed to broadcast, and the lock
\* is released: it is never left held when no call is inside it, so the next
\* valid request is accepted.
C5_FailureLeavesRunner ==
    [][ /\ (last' # NoRequest /\ last'.outcome = ExecutionFailure) =>
              /\ UNCHANGED <<runner_vars, bcast>>
              /\ ~locked'
        /\ running' = <<>> => ~locked'
        /\ (~locked /\ waiters # <<>> /\ waiters' = Tail(waiters)
              /\ Head(waiters).kind = "apply"
              /\ ~finished /\ current_state # NoState
              /\ Head(waiters).op_index \in OpIndices
              /\ precond_func(Head(waiters).op_index, current_state))
           => ApplyEntered
      ]_vars

\* A transition has just failed while another caller was queued on the lock.
C5_Witness ==
    /\ last.outcome = ExecutionFailure
    /\ waiters # <<>>
    /\ Len(state_stack) >= 2

\* C6: once an accepted apply_operator has produced a goal state, finished
\* becomes true (it is set when the call resumes after the transition
\* message, the lock being held meanwhile) and stays true; from then on no
\* request is accepted, and state_stack, op_history, current_state and step
\* never change again.
C6_FinishedIsFinal ==
    [][ /\ finished =>
              /\ finished'
              /\ UNCHANGED <<state_stack, op_history, current_state, step>>
              /\ ~Entered
        /\ (current_state' # NoState /\ is_goal(current_state')) =>
              \/ finished'
              \/ \E i \in 1 .. Len(running') : running'[i].pc = "jit_sent"
      ]_vars

\* The game is over and an undo has just been refused for that reason.
C6_Witness ==
    /\ finished
    /\ last.kind = "undo"
    /\ last.outcome = "Cannot undo after the game has ended."

\* C7: on an unfinished runner holding more than one state, undo is rejected
\* if and only if state_stack[-2].parallel is true and the operator recorded
\* in op_history[-1] does not have allow_undo; otherwise it is accepted and
\* pops one state.
C7_UndoGuard ==
    [][ (UndoProcessed /\ ~finished /\ Len(state_stack) > 1) =>
           LET guarded ==
                   /\ state_stack[Len(state_stack) - 1].parallel
                   /\ op_history[Len(op_history)] \notin allow_undo
           IN  /\ guarded => (UndoRejected /\ last'.outcome = ParallelGuardMessage)
               /\ ~guarded =>
                     /\ UndoAccepted
                     /\ state_stack' = SubSeq(state_stack, 1, Len(state_stack) - 1)
      ]_vars

\* An undo took back a move made in a parallel phase by an operator that
\* has allow_undo: the parallel state is current again.
C7_Witness ==
    /\ accepted # <<>>
    /\ accepted[Len(accepted)].kind = "undo"
    /\ current_state.parallel
    /\ allow_undo # {}
    /\ Len(state_stack) >= 2

\* C8 as stated: when the current state has parallel = true and was produced
\* by an operator without allow_undo, undo is rejected; when the producing
\* operator has allow_undo, undo succeeds.
C8_GuardOnCurrentState ==
    [][ (UndoProcessed /\ Len(state_stack) > 1 /\ current_state.parallel) =>
           /\ op_history[Len(op_history)] \notin allow_undo => UndoRejected
           /\ op_history[Len(op_history)] \in allow_undo => UndoAccepted
      ]_vars

\* C8, amended: when the state undo would revert to (state_stack[-2]) has
\* parallel = true and the operator that produced the current state has no
\* allow_undo, undo is rejected; when that operator has allow_undo and the
\* game is not finished, undo succeeds.
C8_GuardOnPreviousState ==
    [][ (UndoProcessed /\ Len(state_stack) > 1
           /\ state_stack[Len(state_stack) - 1].parallel) =>
           /\ op_history[Len(op_history)] \notin allow_undo => UndoRejected
           /\ (op_history[Len(op_history)] \in allow_undo /\ ~finished) =>
                 UndoAccepted
      ]_vars

\* An undo was refused by the guard although the current state is not
\* parallel: it is the previous, choosing state that is.
C8_Witness ==
    /\ last.kind = "undo"
    /\ last.outcome = ParallelGuardMessage
    /\ ~current_state.parallel
    /\ state_stack[Len(state_stack) - 1].parallel

\* C9: once an operator without allow_undo has been applied to a state whose
\* parallel flag is true, that state and the one produced from it stay where
\* they are in state_stack, and neither that parallel state nor any state
\* below it is current_state again, whatever undo and apply_operator calls
\* follow on the runner.
C9_ParallelMoveIsCommitted ==
    [][ runner_gen' = runner_gen =>
          \A i \in 1 .. Len(state_stack) - 1 :
             (state_stack[i].parallel /\ op_history[i + 1] \notin allow_undo) =>
                /\ Len(state_stack') >= i + 1
                /\ SubSeq(state_stack', 1, i + 1) = SubSeq(state_stack, 1, i + 1)
                /\ \A j \in 1 .. i : current_state' # state_stack[j]
      ]_vars

\* Above a committed parallel move a later move was taken back, and the next
\* undo was refused.
C9_Witness ==
    /\ last.kind = "undo"
    /\ last.outcome = ParallelGuardMessage
    /\ \E j \in 1 .. Len(accepted) : accepted[j].kind = "undo"
    /\ Len(state_stack) >= 3

\* C10: apply_operator(k) followed immediately by undo() leaves current_state
\* the state S it was applied to, state_stack and op_history as they were
\* before the pair, and step two above its value before the pair.
C10_ApplyUndoRestores ==
    (/\ Len(accepted) >= 2
     /\ accepted[Len(accepted) - 1].kind = "apply"
     /\ accepted[Len(accepted)].kind = "undo") =>
        /\ current_state = before_apply.current_state
        /\ StateEq(current_state, before_apply.current_state)
        /\ state_stack = before_apply.state_stack
        /\ op_history = before_apply.op_history
        /\ step = before_apply.step + 2

\* "Start next round" was applied to a scoring state and taken back at once.
C10_Witness ==
    /\ Len(accepted) >= 2
    /\ accepted[Len(accepted) - 1].kind = "apply"
    /\ accepted[Len(accepted) - 1].op_index = NextRoundOp
    /\ accepted[Len(accepted)].kind = "undo"
    /\ current_state.phase = "scoring"
    /\ running = <<>>

\* C11: step goes up by exactly one in the step that accepts an apply_operator
\* and in the step that accepts an undo, is left alone by every rejected or
\* failed request, never goes down on a runner, and on a runner begun by
\* start() equals the number of requests accepted so far.
C11_StepCountsAccepted ==
    [][ runner_gen' = runner_gen =>
          /\ (ApplyAccepted \/ UndoAccepted) => step' = step + 1
          /\ (last' # NoRequest /\ last'.outcome \in GameErrors) => step' = step
          /\ step' >= step
          /\ runner_gen' = 1 => step' = Len(accepted')
      ]_vars

\* After moves and an undo were accepted, a request has just been refused.
C11_Witness ==
    /\ step >= 3
    /\ \E j \in 1 .. Len(accepted) : accepted[j].kind = "undo"
    /\ last.outcome \in GameErrors

\* ----------------------------------------------------------------- C12
\* C12: an operator whose role is R is applied only on behalf of role R:
\* every accepted apply was requested by a connection or a bot whose role
\* is the operator's role, unless the operator has no role.
C12_RoleScopedApply ==
    \A j \in 1 .. Len(accepted) :
        (accepted[j].kind = "apply" /\ accepted[j].by # NoCaller)
            => OpRole(accepted[j].op_index) \in {NoRole, accepted[j].by.role}

\* ----------------------------------------------------------------- C13
\* C13: every operator application accepted for a connection or a bot is
\* applied to a state whose current_role_num is the mover's role: the state
\* handed to the transition function names the caller's role.
C13_AppliedOnOwnTurn ==
    \A i \in 1 .. Len(running) :
        (running[i].pc = "xition" /\ running[i].by # NoCaller)
            => running[i].state.current_role_num = running[i].by.role

\* ----------------------------------------------------------------- C14
\* C14: while the current state is parallel, an apply request from a role
\* that has an applicable operator of its own is accepted, whichever role
\* current_role_num names: such a request is never turned down as out of
\* turn.
C14_ParallelAnyOrder ==
    (last # NoRequest /\ last.outcome = TurnRejection)
        => ~(/\ current_state # NoState
             /\ current_state.parallel
             /\ last.op_index \in OpIndices
             /\ OpRole(last.op_index) = last.by.role
             /\ precond_func(last.op_index, current_state))

\* ----------------------------------------------------------------- C19
\* C19: maybe_move always ends by returning an operator index or None: no
\* exception of the apply_operator call it makes leaves it.
C19_MaybeMoveReturns ==
    ~(last # NoRequest /\ last.by.driver # 0 /\ last.outcome # "ok")

\* ----------------------------------------------------------------- C15
RoleScoped(ops, v) == \A j \in 1 .. Len(ops) : ops[j].role \in {NoRole, v}

StateUpdates == { j \in 1 .. Len(bcast) : bcast[j].type = "state_update" }

\* C15: every state_update delivered to a connection of role v, the direct
\* send on connect and every relayed broadcast, lists only operators whose
\* role is null or v, while the list get_ops_info put in the broadcast has
\* every operator with its role and its applicable flag, whoever views it.
C15_ViewerSeesOwnOperators ==
    /\ \A j \in StateUpdates :
          /\ Len(bcast[j].operators) = NumOps
          /\ \A k \in OpIndices :
                /\ bcast[j].operators[k + 1].index = k
                /\ bcast[j].operators[k + 1].role = OpRole(k)
                /\ bcast[j].operators[k + 1].applicable \in BOOLEAN
          /\ \A t \in Conns :
                RoleScoped(state_update(bcast[j], role_num(t)).operators,
                           role_num(t))
    /\ last.kind = "connect"
          => RoleScoped(connect_payload(last.by.role).operators, last.by.role)

\* A connection of role P2 connects while the last broadcast lists an
\* applicable operator of role P1, and is sent only the operators of role
\* P2 and the one without a role.
C15_Witness ==
    /\ last.kind = "connect"
    /\ last.by.role = P2
    /\ StateUpdates # {}
    /\ LET j == CHOOSE i \in StateUpdates : \A h \in StateUpdates : h <= i
       IN  /\ \E k \in OpIndices : /\ bcast[j].operators[k + 1].role = P1
                                    /\ bcast[j].operators[k + 1].applicable
           /\ Len(state_update(bcast[j], P2).operators) = 4
    /\ Len(connect_payload(P2).operators) = 4

\* ----------------------------------------------------------------- C16
\* C16: after any sequence of add_player, assign_role, remove_player, bot
\* assignment and role unassignment on one RoleManager, at most one player
\* of the player map holds any given role_num >= 0.
C16_OnePlayerPerRole ==
    \A t \in DOMAIN players, u \in DOMAIN players :
        (t # u /\ players[t].role_num >= 0)
            => players[t].role_num # players[u].role_num

\* An assignment has just displaced the occupant of a role, and both roles
\* are held.
C16_Witness ==
    /\ last.kind \in {"assign_role", "assign_bot"}
    /\ last.outcome = "ok"
    /\ last.evicted # {}
    /\ { players[t].role_num : t \in DOMAIN players } \cap Roles = Roles

\* ----------------------------------------------------------------- C17
\* What a successful assign_role(token, r) makes of the player map pl.
AssignRoleFrame(pl, after, token, r) ==
    /\ DOMAIN after \subseteq DOMAIN pl
    /\ token \in DOMAIN after
    /\ after[token] = [pl[token] EXCEPT !.role_num = r]
    /\ \A t \in DOMAIN pl \ {token} :
          IF pl[t].role_num = r
          THEN IF pl[t].is_bot
               THEN t \notin DOMAIN after
               ELSE /\ t \in DOMAIN after
                    /\ after[t] = [pl[t] EXCEPT !.role_num = Unassigned]
          ELSE /\ t \in DOMAIN after
               /\ after[t] = pl[t]
    /\ pl[token].role_num = r => after = pl

\* C17: a successful assign_role(token, r) changes only the assigned player
\* and the previous occupant of r: a displaced bot leaves the player map, a
\* displaced human stays with role_num -1, every other player is unchanged,
\* and assigning a player to the role they hold changes nothing; with an
\* unknown token or an out-of-range role_num it returns an error and
\* changes nothing.
C17_AssignRoleFrame ==
    [][ last'.kind = "assign_role" =>
          IF /\ last'.token \in DOMAIN players
             /\ 0 <= last'.role_num
             /\ last'.role_num < Cardinality(Roles)
          THEN /\ last'.outcome = "ok"
               /\ AssignRoleFrame(players, players', last'.token,
                                  last'.role_num)
          ELSE /\ last'.outcome # "ok"
               /\ players' = players
      ]_vars

\* assign_role has just given a human the role a bot held: the bot is gone,
\* and the player holding the other role is still there.
C17_Witness ==
    /\ last.kind = "assign_role"
    /\ last.outcome = "ok"
    /\ last.evicted # {}
    /\ last.evicted \cap DOMAIN players = {}
    /\ \E t \in DOMAIN players :
          t # last.token /\ players[t].role_num \in Roles

\* ----------------------------------------------------------------- C18
\* C18: a session enters in_progress, by a fresh start or by resume from a
\* checkpoint, only when at that moment at least min_players_to_start
\* distinct non-observer roles have an occupant.
C18_StartNeedsMinPlayers ==
    [][ (status # "in_progress" /\ status' = "in_progress")
          => count_non_observer_filled(players') >= min_players_to_start
      ]_vars

\* ----------------------------------------------------------------- C20
AlreadyInitial == "Already at the initial state; cannot undo further."

NoApplyYet == \A j \in 1 .. Len(accepted) : accepted[j].kind # "apply"

\* C20: a runner resumed from a checkpoint has state_stack equal to the
\* single restored state, step equal to the step saved in the checkpoint and
\* finished false; undo() is rejected as already at the initial state until
\* a new operator has been applied, and step goes on from the saved value.
C20_ResumedRunner ==
    [][ /\ runner_gen' = runner_gen + 1 =>
              /\ state_stack' = <<current_state'>>
              /\ StateEq(current_state',
                         deserialize_state(latest_checkpoint[1].state, next_uid))
              /\ step' = latest_checkpoint[1].step
              /\ ~finished'
        /\ (runner_gen' > 1 /\ runner_gen' = runner_gen) =>
              /\ (NoApplyYet' /\ last' # last /\ last'.kind = "undo") =>
                    /\ last'.outcome = AlreadyInitial
                    /\ UNCHANGED runner_vars
              /\ NoApplyYet' => (Len(state_stack') = 1 /\ ~finished'
                                   /\ step' = step)
              /\ Len(accepted') = Len(accepted) + 1 => step' = step + 1
      ]_vars

\* A runner resumed from a checkpoint taken at a step after the first has
\* just rejected an undo, no operator having been applied since.
C20_Witness ==
    /\ runner_gen > 1
    /\ step > 0
    /\ NoApplyYet
    /\ last.kind = "undo"
    /\ last.outcome = AlreadyInitial
    /\ state_stack = <<current_state>>

\* ----------------------------------------------------------------- C25
NotApplicable == "That operator is not applicable in the current state."

\* C25: a precondition function that raises is treated as false wherever the
\* runner evaluates it: get_ops_info reports applicable = false for that
\* operator, and apply_operator rejects the request as not applicable, the
\* runner unchanged, without the exception reaching the caller.  (The
\* preconditions of Rock-Paper-Scissors raise when the state is None, as
\* current_state is until start() has run.)
C25_RaisingPrecondIsFalse ==
    [][ /\ \A k \in OpIndices : ~get_ops_info(NoState)[k].applicable
        /\ (/\ last' # NoRequest
            /\ last'.kind = "apply"
            /\ last'.outcome # "ok"
            /\ last'.outcome # ExecutionFailure
            /\ ~finished
            /\ last'.op_index \in OpIndices
            /\ current_state = NoState)
           => /\ last'.outcome = NotApplicable
              /\ UNCHANGED runner_vars
      ]_vars

\* ----------------------------------------------------------------- C27
\* A request is processed at the lock: it is turned down there, or it enters
\* the locked block.
ProcessedAtLock ==
    \/ Entered
    \/ last' # NoRequest /\ last'.outcome # "ok" /\ running' = running

\* C27: at most one apply_operator or undo call per runner is between
\* acquiring and releasing the runner's lock: while a call is inside (its
\* transition function running in a thread, or one of its broadcasts
\* awaited), every other call waits, and a call reads the runner's fields
\* only once the call before it has left the lock, having pushed its state
\* or failed.
C27_OneCallInLock ==
    [][ /\ Len(running') <= 1
        /\ running' # <<>> => locked'
        /\ ProcessedAtLock => (running = <<>> /\ ~locked)
        /\ running # <<>> =>
              (Len(waiters) <= Len(waiters')
                 /\ waiters = SubSeq(waiters', 1, Len(waiters)))
      ]_vars

\* A transition function is running in its thread while an undo waits for
\* the lock.
C27_Witness ==
    /\ Len(running) = 1
    /\ running[1].pc = "xition"
    /\ Len(state_stack) >= 2
    /\ waiters # <<>>
    /\ waiters[1].kind = "undo"

\* ----------------------------------------------------------------- C28
\* The types of the payloads handed to broadcast with step n, in order.
RECURSIVE EventsAt(_, _)
EventsAt(log, n) ==
    IF log = <<>> THEN <<>>
    ELSE EventsAt(SubSeq(log, 1, Len(log) - 1), n)
            \o (IF log[Len(log)].step = n THEN <<log[Len(log)].type>> ELSE <<>>)

IsPrefix(s, t) == Len(s) <= Len(t) /\ s = SubSeq(t, 1, Len(s))

Jit(s) == IF s.jit_transition # NoJit THEN <<"transition_msg">> ELSE <<>>
Goal(s) == IF is_goal(s) THEN <<"goal_reached">> ELSE <<>>

\* The events of the last accepted request: those the runner has emitted so
\* far are the first of `expected`, and all of them once its call is over.
EventsOfLastAccepted(expected) ==
    /\ IsPrefix(EventsAt(bcast, step), expected)
    /\ running = <<>> => EventsAt(bcast, step) = expected

\* C28 as stated: for each accepted apply_operator the runner emits the
\* transition message (only if the new state carries jit_transition), then
\* the goal-reached event (only if the new state is a goal), then exactly one
\* state broadcast for the new state, all of them with the new step value;
\* an accepted undo emits exactly one state broadcast and no transition
\* message.
C28_GoalBeforeStateUpdate ==
    accepted # <<>> =>
        /\ \A j \in 1 .. Len(bcast) : bcast[j].step <= step
        /\ IF accepted[Len(accepted)].kind = "apply"
           THEN EventsOfLastAccepted(
                    Jit(current_state) \o Goal(current_state) \o <<"state_update">>)
           ELSE EventsOfLastAccepted(<<"state_update">>)

\* C28, amended: for each accepted apply_operator the runner emits the
\* transition message (only if the new state carries jit_transition), then
\* exactly one state broadcast for the new state, then the goal-reached
\* event (only if the new state is a goal), all of them with the new step
\* value; an accepted undo emits exactly one state broadcast and no
\* transition message.
C28_StateUpdateBeforeGoal ==
    accepted # <<>> =>
        /\ \A j \in 1 .. Len(bcast) : bcast[j].step <= step
        /\ IF accepted[Len(accepted)].kind = "apply"
           THEN EventsOfLastAccepted(
                    Jit(current_state) \o <<"state_update">> \o Goal(current_state))
           ELSE EventsOfLastAccepted(<<"state_update">>)

\* The move that ended the game has returned: its transition message, its
\* state broadcast and the goal-reached event are the last three payloads.
C28_Witness ==
    /\ finished
    /\ running = <<>>
    /\ accepted # <<>>
    /\ EventsAt(bcast, step) = <<"transition_msg", "state_update", "goal_reached">>

\* ----------------------------------------------------------------- C26
\* Rock beats scissors, scissors beats paper, paper beats rock.
Beats(a, b) ==
    <<a, b>> \in {<<ROCK, SCISSORS>>, <<SCISSORS, PAPER>>, <<PAPER, ROCK>>}

ScoreChange(c1, c2) ==
    IF Beats(c1, c2) THEN <<1, -1>>
    ELSE IF Beats(c2, c1) THEN <<-1, 1>>
    ELSE <<0, 0>>

\* Position i of the stack holds a choosing state with no choice made, a P1
\* choice was applied to it and a P2 choice to the result.
P1ThenP2(stack, hist, i) ==
    /\ i + 2 <= Len(stack)
    /\ stack[i].phase = "choosing"
    /\ stack[i].choices = <<NoChoice, NoChoice>>
    /\ hist[i + 1] \in {0, 1, 2}
    /\ hist[i + 2] \in {3, 4, 5}

\* The state the two choices lead to: both recorded, the parallel phase over,
\* a transition message attached, the scores moved by the rule.
RoundResolved(stack, hist, i) ==
    LET s == stack[i]
        r == stack[i + 2]
        c1 == OpChoice(hist[i + 1])
        c2 == OpChoice(hist[i + 2])
    IN  /\ r.choices = <<c1, c2>>
        /\ r.parallel = FALSE
        /\ r.jit_transition # NoJit
        /\ r.scores[1] = s.scores[1] + ScoreChange(c1, c2)[1]
        /\ r.scores[2] = s.scores[2] + ScoreChange(c1, c2)[2]

\* An undo is processed while the current state is one resolved in this way.
UndoOfResolved ==
    /\ UndoProcessed
    /\ Len(state_stack) >= 3
    /\ P1ThenP2(state_stack, op_history, Len(state_stack) - 2)

\* C26 as stated: in Rock-Paper-Scissors under the GameRunner, from a
\* choosing state with no choices made, applying any P1 choice and then any P2
\* choice yields a state with both choices recorded, parallel = false, a
\* non-empty jit_transition and scores changed by (+1,-1), (-1,+1) or (0,0)
\* according to rock-beats-scissors, scissors-beats-paper, paper-beats-rock;
\* undo() from that resolved state is rejected by the parallel guard.
C26_RoundResolves ==
    [][ /\ \A i \in 1 .. Len(state_stack') :
              P1ThenP2(state_stack', op_history', i)
                  => RoundResolved(state_stack', op_history', i)
        /\ UndoOfResolved =>
              (UndoRejected /\ last'.outcome = ParallelGuardMessage)
      ]_vars

\* C26, amended: the two choices resolve the round as stated; undo() from
\* the resolved state is rejected, by the parallel guard as long as the game
\* is not finished, and as "Cannot undo after the game has ended." once the
\* resolved round was the last one.
C26_RoundResolvesUndoRejected ==
    [][ /\ \A i \in 1 .. Len(state_stack') :
              P1ThenP2(state_stack', op_history', i)
                  => RoundResolved(state_stack', op_history', i)
        /\ UndoOfResolved =>
              /\ UndoRejected
              /\ last'.outcome = IF finished
                                 THEN "Cannot undo after the game has ended."
                                 ELSE ParallelGuardMessage
      ]_vars

\* In the second round P1 chose paper and P2 scissors, P2 scored, and an undo
\* of the resolved state has just been refused by the parallel guard.
C26_Witness ==
    /\ last.kind = "undo"
    /\ last.outcome = ParallelGuardMessage
    /\ current_state.round_num = 2
    /\ current_state.choices = <<PAPER, SCISSORS>>
    /\ current_state.jit_transition # NoJit
    /\ Len(state_stack) >= 3
    /\ P1ThenP2(state_stack, op_history, Len(state_stack) - 2)
    /\ current_state.scores[2]
          = state_stack[Len(state_stack) - 2].scores[2] + 1

\* ----------------------------------------------------------------- C30
\* vars(state): the attributes the object has, with their values.
Vars(s) ==
    [k \in StateAttrs \cup (IF s.jit_transition = NoJit THEN {}
                            ELSE {"jit_transition"}) |-> s[k]]

\* deserialize_state(serialize_state(s), type(s)) has the attributes of s,
\* with their values, and no other.
RoundTrip(s) ==
    /\ Vars(deserialize_state(serialize_state(s), next_uid)) = Vars(s)
    /\ DOMAIN serialize_state(s) = DOMAIN Vars(s) \cup {"__class__"}

C23_PushedStateNeverModified ==
    [][ /\ \A i \in 1 .. Len(ttt.state_stack) :
              i <= Len(ttt'.state_stack)
                 => ttt'.state_stack[i] = ttt.state_stack[i]
        /\ ttt'.outcome # "undone"
              => Len(ttt'.state_stack) >= Len(ttt.state_stack)
      ]_vars

\* ----------------------------------------------------------------- C29
\* C29: trigger_bots_for_session keeps driving bot moves until it is a
\* human's turn or the game ends: whenever it returns, the runner is
\* finished, or the current role is not the role of a bot of the session,
\* or that bot has no applicable operator.
C29_BotsDrivenToTheEnd ==
    mc.pc = "returned" =>
        \/ mc.finished
        \/ mc.state[1].current_role_num # mc.bot_role
        \/ mc_applicable(mc.state[1]) = {}

\* ----------------------------------------------------------------- C22
\* C22: load_formulation fails with a PFFLoadError, never another
\* exception and never a half-registered module, when the game file is
\* missing, when executing it raises, or when it defines no formulation:
\* after the failure the synthetic module name is absent from the module
\* registry, and no formulation and no GameRunner has been made.
C22_FailedLoadIsClean ==
    [][ (load_last'.n # load_last.n /\ load_last'.input # "ok") =>
            /\ load_last'.raised = "PFFLoadError"
            /\ \A e \in sys_modules' : e.name # load_last'.name
            /\ sys_modules' = sys_modules
            /\ formulations' = formulations
      ]_vars

\* ----------------------------------------------------------------- C21
\* C21: two formulations loaded from the same game content are registered
\* under distinct module names and share no module object, and a step on
\* one play-through (loading it, making its runner, its
\* initialize_problem, its operators) leaves the state, the instance data,
\* the module-level data and the operator results of every other
\* play-through unchanged.
AskWinResults(fs, heap, j) ==
    [acc \in Accusations |->
        ask_win(heap[fs[j].module],
                [OCCLUEdo_State EXCEPT
                    !.current_accusation = Append(acc, 0),
                    !.accusation_phase = 4])]

C31_FinishedIffGoal ==
    (current_state # NoState /\ running = <<>>)
        => (finished <=> is_goal(current_state))

\* ---------------------------------------------------------------- C32
\* C32: while the session's status is 'paused' no apply_operator or undo is
\* accepted on its runner (no call passes the runner's checks and takes the
\* lock), and the state and step the resume restores are those the paused
\* runner has: no accepted move is lost across pause and resume.
C32_NoMoveAcrossPause ==
    [][/\ (status = "paused" /\ status' = "paused")
             => Len(running') <= Len(running)
       /\ (status = "paused" /\ status' = "in_progress")
             => /\ step' = step
                /\ serialize_state(current_state')
                       = serialize_state(current_state)]_vars

\* ---------------------------------------------------------------- C33
\* C33: on the state of a runner resumed from a checkpoint, and on every
\* state reached from it, the operator of the resumed runner gives for
\* every guess the result the operator of the paused runner gives: the
\* per-instance data chosen when the play-through began are preserved.
C33_ResumePreservesInstanceData ==
    (gma.runner_gen >= 1 /\ gma.pc = "in_progress")
        => \A guess \in Ages :
               handle_guess(gma.state[1], guess, gma.secret_age)
                   = handle_guess(gma.state[1], guess, gma.paused_secret)

\* ---------------------------------------------------------------- C34
\* C34: whenever the session's status is 'in_progress' its runner has been
\* started: state_stack is not empty and current_state is a state, so the
\* state_update built for a connecting player is built from a state.
C34_InProgressRunnerStarted ==
    status = "in_progress"
        => (state_stack # <<>> /\ current_state # NoState)

\* ---------------------------------------------------------------- C35
\* C35: a game in progress is never replaced: while the session's status
\* is 'in_progress' no step installs another runner (the count of runners
\* stays, a started runner is not followed by an unstarted one), so a
\* start_game request is acted on only in the lobby or paused state.
C35_RunnerNotReplacedInProgress ==
    [][status = "in_progress"
         => /\ runner_gen' = runner_gen
            /\ current_state # NoState => current_state' # NoState]_vars

\* ---------------------------------------------------------------- C36
\* C36: no apply_operator and no undo requested over a connection whose
\* player holds no role (role_num = -1) is accepted: no such request passes
\* the checks and enters the runner's locked block.
C36_NoRoleNeverAccepted ==
    [][Entered =>
          LET by == running'[Len(running')].by
          IN  by.conn # 0 => by.role # Unassigned]_vars

InCall(t) == \E by \in InFlight : by.conn = t

C38_CallsReturnLockReleased ==
    /\ \A t \in DOMAIN TwoHumans : InCall(t) ~> ~InCall(t)
    /\ locked ~> ~locked

\* A transition function has raised, the call has left the locked block
\* with the lock released, and another caller is queued on the lock.
C38_Witness ==
    /\ last # NoRequest
    /\ last.outcome = ExecutionFailure
    /\ ~locked
    /\ waiters # <<>>

====
